---- MODULE Spec2Model ----
(***************************************************************************)
(* A model of the pattern-detection engine, src/src/pattern_analyzer.py    *)
(* (class PatternAnalyzer).                                                *)
(*                                                                         *)
(* Conventions of the model.                                               *)
(*  - Positions are 1-based: python position k is position k+1 here.       *)
(*  - Prices and volumes are integers; every quotient the code computes    *)
(*    in floating point is kept as an exact fraction [num, den] with       *)
(*    den > 0, and compared by cross-multiplication.  NaN is a value of    *)
(*    its own: every comparison with NaN is false, as in IEEE 754.         *)
(*  - Timestamps are integers counted in days, so pd.Timedelta(days=k)     *)
(*    is the integer k.                                                    *)
(*  - A configuration number with a fractional part is kept in the unit    *)
(*    that makes it an integer: volume_threshold and                       *)
(*    min_divergence_strength in tenths, tolerance in hundredths.          *)
(***************************************************************************)
EXTENDS Integers, Sequences, FiniteSets, TLC

VARIABLES
    self_patterns_config,   \* PatternAnalyzer.patterns_config, set by __init__
    in_data,                \* the DataFrame handed to analyze
    in_symbol,              \* the symbol handed to analyze
    pc,                     \* the position of the running analyze call
    patterns,               \* the dict analyze builds and returns
    outcome,                \* how the call ended: "none", "returned" or "raised"
    log,                    \* who called logger.error during the call
    invoked,                \* the detectors called so far during the call
    arg_data,              \* argument `data` of a direct _calculate_rsi call
    arg_period,             \* argument `period` of that call
    ret_rsi,                \* what that call returned
    rsi_pc,                 \* "call" before it, "done" after it
    results,                \* what the analyze calls returned so far, in order
    pandas_release,         \* how the installed pandas slices an unordered index
    series_pool,            \* which series the caller holds: "all" or "few"
    fn_args,                \* the arguments of a direct call of another method
    fn_ret,                 \* what that call returned
    fn_pc                   \* "call" before it, "done" after it

vars == <<self_patterns_config, in_data, in_symbol, pc, patterns, outcome, log,
          invoked, arg_data, arg_period, ret_rsi, rsi_pc, results,
          pandas_release, series_pool, fn_args, fn_ret, fn_pc>>

env_vars == <<pandas_release, series_pool>>

analyze_vars == <<self_patterns_config, in_data, in_symbol, pc, patterns, outcome,
                  log, invoked, results, env_vars>>

rsi_vars == <<arg_data, arg_period, ret_rsi, rsi_pc>>

fn_vars == <<fn_args, fn_ret, fn_pc>>

\* What a step of analyze leaves alone, its own variables apart.
other_vars == <<rsi_vars, fn_vars, env_vars>>

---------------------------------------------------------------------------
(* Numbers. *)

NaN == [nan |-> TRUE, num |-> 0, den |-> 1]

\* python's None; a configuration entry that is a dict has none = FALSE.
None == [none |-> TRUE]

Abs(x) == IF x < 0 THEN -x ELSE x

RECURSIVE GCD(_, _)
GCD(a, b) == IF b = 0 THEN a ELSE GCD(b, a % b)

\* The fraction n/d in lowest terms, d > 0.
Q(n, d) ==
    LET g == GCD(Abs(n), d)
    IN  [nan |-> FALSE, num |-> n \div g, den |-> d \div g]

Lt(a, b) == ~a.nan /\ ~b.nan /\ a.num * b.den < b.num * a.den

Gt(a, b) == Lt(b, a)

Le(a, b) == ~a.nan /\ ~b.nan /\ a.num * b.den <= b.num * a.den

Eq(a, b) == ~a.nan /\ ~b.nan /\ a.num * b.den = b.num * a.den

Neg(a) == IF a.nan THEN NaN ELSE [nan |-> FALSE, num |-> -a.num, den |-> a.den]

SetMax(S) == CHOOSE x \in S : \A y \in S : y <= x

SetMin(S) == CHOOSE x \in S : \A y \in S : x <= y

\* s[lo] + ... + s[hi], summed by halves.
RECURSIVE SeqSum(_, _, _)
SeqSum(s, lo, hi) ==
    IF lo > hi THEN 0
    ELSE IF lo = hi THEN s[lo]
    ELSE SeqSum(s, lo, (lo + hi) \div 2) + SeqSum(s, (lo + hi) \div 2 + 1, hi)

---------------------------------------------------------------------------
(* pandas windows.  rolling(window=w) at position i covers i-w+1 .. i and  *)
(* is undefined (NaN) until w observations are available; with center=True *)
(* the window of position i is i - w \div 2 .. i + (w-1) \div 2.           *)

RollLo(i, w, center) == IF center THEN i - (w \div 2) ELSE i - w + 1

RollHi(i, w, center) == IF center THEN i + ((w - 1) \div 2) ELSE i

RollDefined(n, i, w, center) ==
    /\ w >= 1
    /\ RollLo(i, w, center) >= 1
    /\ RollHi(i, w, center) <= n

\* The mean of the values available so far where the window is not full.
RollingMean_partial(s, w) ==
    [i \in 1..Len(s) |->
        IF RollDefined(Len(s), i, w, FALSE)
        THEN Q(SeqSum(s, i - w + 1, i), w)
        ELSE Q(SeqSum(s, 1, i), i)]

\* Series.rolling(window=w).mean() of an integer series: a fraction or NaN.
RollingMean(s, w) ==
    [i \in 1..Len(s) |->
        IF RollDefined(Len(s), i, w, FALSE)
        THEN Q(SeqSum(s, i - w + 1, i), w)
        ELSE NaN]

---------------------------------------------------------------------------
(* _calculate_rsi *)

\* data.diff(): NaN at the first position.
Diff(s) ==
    [i \in 1..Len(s) |-> IF i = 1 THEN NaN ELSE Q(s[i] - s[i - 1], 1)]

\* delta.where(delta > 0, 0): the value is kept where the condition holds and
\* replaced by 0 elsewhere, also where delta is NaN (NaN > 0 is false).
GainOf(delta) ==
    [i \in DOMAIN delta |-> IF Gt(delta[i], Q(0, 1)) THEN delta[i].num ELSE 0]

\* -delta.where(delta < 0, 0)
LossOf(delta) ==
    [i \in DOMAIN delta |-> IF Lt(delta[i], Q(0, 1)) THEN -delta[i].num ELSE 0]

\* RsiOfMeans with the "1 +" of the formula left out: 100 - 100 / rs.
RsiOfMeans_no_one(gain, loss) ==
    IF gain.nan \/ loss.nan THEN NaN
    ELSE IF loss.num = 0
         THEN IF gain.num = 0 THEN NaN ELSE Q(100, 1)
         ELSE IF gain.num = 0 THEN NaN
         ELSE Q(100 * gain.num * loss.den - 100 * loss.num * gain.den,
                gain.num * loss.den)

\* rs = gain / loss on floats: x/0 is inf for x > 0 and NaN for x = 0.
\* rsi = 100 - 100 / (1 + rs): 100 for rs = inf, NaN for rs = NaN.
RsiOfMeans(gain, loss) ==
    IF gain.nan \/ loss.nan THEN NaN
    ELSE IF loss.num = 0
         THEN IF gain.num = 0 THEN NaN ELSE Q(100, 1)
         ELSE \* 100 - 100 / (1 + g/l) = 100 g / (g + l)
              Q(100 * gain.num * loss.den,
                gain.num * loss.den + loss.num * gain.den)

\* The series _calculate_rsi returns (in `values`), or None when the
\* computation raises:
\* rolling(window=period) raises ValueError for a negative period, and the
\* bare except turns that into None.  A malformed period is modelled as -1.
_calculate_rsi(close, period) ==
    IF period < 0 THEN None
    ELSE LET delta == Diff(close)
             gain == RollingMean(GainOf(delta), period)
             loss == RollingMean(LossOf(delta), period)
         IN  [none |-> FALSE,
              values |-> [i \in 1..Len(close) |-> RsiOfMeans(gain[i], loss[i])]]

---------------------------------------------------------------------------
(* The DataFrame.  `columns` is the set of columns present, `index` the    *)
(* timestamps, and each column a sequence aligned with the index.  Reading *)
(* a column that is not in `columns` raises KeyError.                      *)

Columns == {"open", "high", "low", "close", "volume"}

DataFrame(columns, index, rows) ==
    [columns |-> columns,
     index   |-> index,
     open    |-> [i \in 1..Len(rows) |-> rows[i].open],
     high    |-> [i \in 1..Len(rows) |-> rows[i].high],
     low     |-> [i \in 1..Len(rows) |-> rows[i].low],
     close   |-> [i \in 1..Len(rows) |-> rows[i].close],
     volume  |-> [i \in 1..Len(rows) |-> rows[i].volume]]

Has(data, cols) == cols \subseteq data.columns

\* Index.is_monotonic_increasing
IsMonotonicIncreasing(index) ==
    \A i \in 1..(Len(index) - 1) : index[i] <= index[i + 1]

StrictlyIncreasing(index) ==
    \A i \in 1..(Len(index) - 1) : index[i] < index[i + 1]

\* The position of label idx in a unique index.
Loc(index, idx) == CHOOSE i \in 1..Len(index) : index[i] = idx

\* The positions of a sequence that satisfy Test, in ascending order: the
\* order in which data[mask].index lists the selected rows.
Positions(n) == [i \in 1..n |-> i]

\* series.loc[idx]: the value of the row that carries the label; where several
\* rows carry it, the Series of their values in row order.
AtLabel(index, values, idx) ==
    LET Carries(i) == index[i] = idx
        rows == SelectSeq(Positions(Len(index)), Carries)
    IN  IF Len(rows) = 1 THEN values[rows[1]]
        ELSE [k \in 1..Len(rows) |-> values[rows[k]]]

---------------------------------------------------------------------------
(* The pattern configuration: Config.get_patterns_config().  An entry is   *)
(* the dict of one detector, or None when the YAML file gives the key no   *)
(* mapping ("breakout:" with nothing under it).                            *)

DefaultLookback == 20

DefaultVolumeThreshold == 15

DefaultRsiPeriods == 14

DefaultMinDivergenceStrength == 3

DefaultMinTouches == 2

DefaultTolerance == 2

BreakoutEntry(enabled, lookback_periods, volume_threshold) ==
    [none |-> FALSE, enabled |-> enabled, lookback_periods |-> lookback_periods,
     volume_threshold |-> volume_threshold]

DivergenceEntry(enabled, rsi_periods, min_divergence_strength) ==
    [none |-> FALSE, enabled |-> enabled, rsi_periods |-> rsi_periods,
     min_divergence_strength |-> min_divergence_strength]

SupportResistanceEntry(enabled, min_touches, tolerance) ==
    [none |-> FALSE, enabled |-> enabled, min_touches |-> min_touches,
     tolerance |-> tolerance]

\* Config._get_default_config()['patterns']
DefaultPatternsConfig ==
    [breakout |-> BreakoutEntry(TRUE, DefaultLookback, DefaultVolumeThreshold),
     divergence |-> DivergenceEntry(TRUE, DefaultRsiPeriods,
                                    DefaultMinDivergenceStrength),
     support_resistance |-> SupportResistanceEntry(TRUE, DefaultMinTouches,
                                                   DefaultTolerance)]

---------------------------------------------------------------------------
(* _calculate_breakout_strength *)

StrengthDays == 20

\* data[col].loc[idx - pd.Timedelta(days=20) : idx], as the set of positions
\* it selects.  On a monotonic index a label slice selects the rows whose
\* label lies in the closed range.  On a non-monotonic index the outcome
\* depends on the pandas release: older releases select by value
\* (slice_mode "mask"); newer ones raise KeyError when the lower label is not
\* in the index and slice by position when it is (slice_mode "locs").
\* Raised is reported as the set {0}.
StrengthWindow(index, idx, slice_mode) ==
    LET lo == idx - StrengthDays
        byValue == {j \in 1..Len(index) : lo <= index[j] /\ index[j] <= idx}
    IN  IF IsMonotonicIncreasing(index) \/ slice_mode = "mask" THEN byValue
        ELSE IF \A j \in 1..Len(index) : index[j] # lo THEN {0}
        ELSE {j \in 1..Len(index) : Loc(index, lo) <= j /\ j <= Loc(index, idx)}

\* The relative excursion returned as computed, without max(0, ...).
_calculate_breakout_strength_unclamped(data, idx, breakout_type, slice_mode) ==
    LET window == StrengthWindow(data.index, idx, slice_mode)
        at == data.close[Loc(data.index, idx)]
    IN  IF window = {0} \/ window = {} THEN Q(0, 1)
        ELSE IF breakout_type = "resistance"
        THEN Q(at - SetMax({data.high[j] : j \in window}),
               SetMax({data.high[j] : j \in window}))
        ELSE Q(SetMin({data.low[j] : j \in window}) - at,
               SetMin({data.low[j] : j \in window}))

\* max(0, breakout_strength), and 0.0 when anything raises.  An empty slice
\* has max() NaN, the strength is NaN, and python's max(0, nan) is 0.
_calculate_breakout_strength(data, idx, breakout_type, slice_mode) ==
    LET window == StrengthWindow(data.index, idx, slice_mode)
        at == data.close[Loc(data.index, idx)]
    IN  IF window = {0} \/ window = {} THEN Q(0, 1)
        ELSE IF breakout_type = "resistance"
        THEN LET recent_high == SetMax({data.high[j] : j \in window})
             IN  IF at - recent_high > 0 THEN Q(at - recent_high, recent_high)
                 ELSE Q(0, 1)
        ELSE LET recent_low == SetMin({data.low[j] : j \in window})
             IN  IF recent_low - at > 0 THEN Q(recent_low - at, recent_low)
                 ELSE Q(0, 1)

---------------------------------------------------------------------------
(* _detect_breakouts *)

\* Series.rolling(window=w, center=center).max() at position i, or the
\* string "nan" where the window is not fully populated.
RollingMax(s, w, center, i) ==
    IF RollDefined(Len(s), i, w, center)
    THEN SetMax({s[j] : j \in RollLo(i, w, center)..RollHi(i, w, center)})
    ELSE "nan"

RollingMin(s, w, center, i) ==
    IF RollDefined(Len(s), i, w, center)
    THEN SetMin({s[j] : j \in RollLo(i, w, center)..RollHi(i, w, center)})
    ELSE "nan"

\* The rolling window of the breakout levels ends at its own bar.
BreakoutCenter_trailing == FALSE

\* The rolling window of the breakout levels is centered (lines 76-77).
BreakoutCenter == TRUE

\* data['close'] > highs.shift(1), at position i
ResistanceBreak(data, lookback, i) ==
    /\ i >= 2
    /\ RollDefined(Len(data.index), i - 1, lookback, BreakoutCenter)
    /\ data.close[i] > RollingMax(data.high, lookback, BreakoutCenter, i - 1)
    /\ data.close[i] > data.open[i]

\* data['close'] < lows.shift(1), at position i
SupportBreak(data, lookback, i) ==
    /\ i >= 2
    /\ RollDefined(Len(data.index), i - 1, lookback, BreakoutCenter)
    /\ data.close[i] < RollingMin(data.low, lookback, BreakoutCenter, i - 1)
    /\ data.close[i] < data.open[i]

\* data['volume'] > avg_volume * volume_threshold, the average taken over the
\* lookback bars ending at i; the threshold is in tenths.
HighVolume(data, lookback, volume_threshold, i) ==
    /\ RollDefined(Len(data.index), i, lookback, FALSE)
    /\ data.volume[i] * lookback * 10
         > SeqSum(data.volume, i - lookback + 1, i) * volume_threshold

\* Whether the body of _detect_breakouts raises (and the detector logs the
\* error and returns the empty list it has built so far).
BreakoutsFault(data, patterns_config) ==
    \/ ~Has(data, {"high", "low", "close", "open", "volume"})
    \/ patterns_config.breakout.lookback_periods < 0

BreakoutEvent(data, i, type, breakout_type, slice_mode) ==
    [type      |-> type,
     timestamp |-> data.index[i],
     price     |-> data.close[i],
     volume    |-> data.volume[i],
     strength  |-> _calculate_breakout_strength(data, data.index[i],
                                                breakout_type, slice_mode)]

\* The list the detector returns: the resistance events, then the support
\* events, each group in the order of the rows.
_detect_breakouts(data, patterns_config, slice_mode) ==
    IF BreakoutsFault(data, patterns_config) THEN << >>
    ELSE
    LET lookback == patterns_config.breakout.lookback_periods
        volume_threshold == patterns_config.breakout.volume_threshold
        IsRes(i) == ResistanceBreak(data, lookback, i)
                    /\ HighVolume(data, lookback, volume_threshold, i)
        IsSup(i) == SupportBreak(data, lookback, i)
                    /\ HighVolume(data, lookback, volume_threshold, i)
        resistance_indices == SelectSeq(Positions(Len(data.index)), IsRes)
        support_indices == SelectSeq(Positions(Len(data.index)), IsSup)
    IN  [k \in 1..Len(resistance_indices) |->
            BreakoutEvent(data, resistance_indices[k], "resistance_breakout",
                          "resistance", slice_mode)]
        \o
        [k \in 1..Len(support_indices) |->
            BreakoutEvent(data, support_indices[k], "support_breakout",
                          "support", slice_mode)]

---------------------------------------------------------------------------
(* _cluster_levels *)

\* The values in the order given.
SortValues_unsorted(levels) == levels

\* levels.sort_values(): the values in ascending order.  The value at place k
\* is the one with fewer than k values below it and at least k values not
\* above it.
SortValues(levels) ==
    LET Below(v) == Cardinality({j \in 1..Len(levels) : levels[j] < v})
        UpTo(v) == Cardinality({j \in 1..Len(levels) : levels[j] <= v})
    IN  [k \in 1..Len(levels) |->
            CHOOSE v \in {levels[j] : j \in 1..Len(levels)} :
                Below(v) < k /\ k <= UpTo(v)]

\* The distance taken as it is, not relative to the key of the cluster.
WithinTolerance_absolute(level, cluster_level, tolerance) ==
    Abs(level - cluster_level) * 100 <= tolerance

\* abs(level - cluster_level) / cluster_level <= tolerance, the tolerance in
\* hundredths.
WithinTolerance(level, cluster_level, tolerance) ==
    Abs(level - cluster_level) * 100 <= tolerance * cluster_level

\* The level is compared with the latest member of a cluster, not its key.
AddLevel_last_member(clustered, level, tolerance) ==
    LET Latest(k) == clustered[k].touches[Len(clustered[k].touches)]
        hits == {k \in 1..Len(clustered) :
                    WithinTolerance(level, Latest(k), tolerance)}
    IN  IF hits = {}
        THEN Append(clustered, [level |-> level, touches |-> <<level>>])
        ELSE [clustered EXCEPT ![SetMin(hits)].touches = Append(@, level)]

\* One turn of the outer loop: the level joins the first cluster, in creation
\* order, whose key is within the tolerance, or starts a cluster of its own.
AddLevel(clustered, level, tolerance) ==
    LET hits == {k \in 1..Len(clustered) :
                    WithinTolerance(level, clustered[k].level, tolerance)}
    IN  IF hits = {}
        THEN Append(clustered, [level |-> level, touches |-> <<level>>])
        ELSE [clustered EXCEPT ![SetMin(hits)].touches = Append(@, level)]

\* The turns lo..hi of the outer loop, run on the dict `clustered`: the turns
\* of the first half, then those of the second half on what the first left.
\* (Taking the length of `half` has the first half computed before the second
\* one starts; a dict that has been through a turn is never empty.)
RECURSIVE ClusterLoop(_, _, _, _, _)
ClusterLoop(clustered, sorted_levels, lo, hi, tolerance) ==
    IF lo > hi THEN clustered
    ELSE IF lo = hi THEN AddLevel(clustered, sorted_levels[lo], tolerance)
    ELSE LET half == ClusterLoop(clustered, sorted_levels, lo, (lo + hi) \div 2,
                                 tolerance)
         IN  IF Len(half) = 0 THEN half
             ELSE ClusterLoop(half, sorted_levels, (lo + hi) \div 2 + 1, hi,
                              tolerance)

\* The dict the method returns, as the sequence of its items in insertion
\* order: the key `level` and the list `touches` of member values.
_cluster_levels(levels, tolerance) ==
    ClusterLoop(<< >>, SortValues(levels), 1, Len(levels), tolerance)

---------------------------------------------------------------------------
(* _detect_support_resistance *)

SRWindow == 5

\* data[data['high'] == highs]['high']: the highs that equal the centered
\* rolling maximum, in row order.
ResistanceCandidates(data) ==
    LET IsCand(i) ==
            /\ RollDefined(Len(data.index), i, SRWindow, TRUE)
            /\ data.high[i] = RollingMax(data.high, SRWindow, TRUE, i)
        at == SelectSeq(Positions(Len(data.index)), IsCand)
    IN  [k \in 1..Len(at) |-> data.high[at[k]]]

SupportCandidates(data) ==
    LET IsCand(i) ==
            /\ RollDefined(Len(data.index), i, SRWindow, TRUE)
            /\ data.low[i] = RollingMin(data.low, SRWindow, TRUE, i)
        at == SelectSeq(Positions(Len(data.index)), IsCand)
    IN  [k \in 1..Len(at) |-> data.low[at[k]]]

\* max(touches): touches is the list of member values of the cluster.
LastTouch(touches) == SetMax({touches[k] : k \in 1..Len(touches)})

LevelEvent(type, cluster, total) ==
    [type       |-> type,
     level      |-> cluster.level,
     touches    |-> Len(cluster.touches),
     strength   |-> Q(Len(cluster.touches) * 100, total),
     last_touch |-> LastTouch(cluster.touches)]

\* A cluster needs more members than min_touches.
LevelEvents_more_than(type, clustered, min_touches, total) ==
    LET Enough(k) == Len(clustered[k].touches) > min_touches
        kept == SelectSeq(Positions(Len(clustered)), Enough)
    IN  [k \in 1..Len(kept) |->
            [type       |-> type,
             level      |-> clustered[kept[k]].level,
             touches    |-> Len(clustered[kept[k]].touches),
             strength   |-> Q(Len(clustered[kept[k]].touches) * 100, total),
             last_touch |-> SetMax({clustered[kept[k]].touches[j] :
                                       j \in 1..Len(clustered[kept[k]].touches)})]]

LevelEvents(type, clustered, min_touches, total) ==
    LET Enough(k) == Len(clustered[k].touches) >= min_touches
        kept == SelectSeq(Positions(Len(clustered)), Enough)
    IN  [k \in 1..Len(kept) |-> LevelEvent(type, clustered[kept[k]], total)]

SupportResistanceFault(data, patterns_config) ==
    ~Has(data, {"high", "low"})

_detect_support_resistance(data, patterns_config) ==
    IF SupportResistanceFault(data, patterns_config) THEN << >>
    ELSE
    LET min_touches == patterns_config.support_resistance.min_touches
        tolerance == patterns_config.support_resistance.tolerance
        resistance_levels == _cluster_levels(ResistanceCandidates(data), tolerance)
        support_levels == _cluster_levels(SupportCandidates(data), tolerance)
    IN  LevelEvents("resistance", resistance_levels, min_touches, Len(data.index))
        \o LevelEvents("support", support_levels, min_touches, Len(data.index))

---------------------------------------------------------------------------
(* _detect_trend_changes *)

SmaFast == 20

SmaSlow == 50

\* The crossing taken with >= in place of >.
SmaCrossover_nonstrict(sma_20, sma_50, i) ==
    /\ Le(sma_50[i], sma_20[i])
    /\ i >= 2
    /\ Le(sma_20[i - 1], sma_50[i - 1])

\* (sma_20 > sma_50) & (sma_20.shift(1) <= sma_50.shift(1)), at position i
SmaCrossover(sma_20, sma_50, i) ==
    /\ Gt(sma_20[i], sma_50[i])
    /\ i >= 2
    /\ Le(sma_20[i - 1], sma_50[i - 1])

\* The fast average below the slow one, whatever they were a bar earlier.
SmaCrossunder_no_previous(sma_20, sma_50, i) ==
    Lt(sma_20[i], sma_50[i])

\* (sma_20 < sma_50) & (sma_20.shift(1) >= sma_50.shift(1)), at position i
SmaCrossunder(sma_20, sma_50, i) ==
    /\ Lt(sma_20[i], sma_50[i])
    /\ i >= 2
    /\ Le(sma_50[i - 1], sma_20[i - 1])

TrendChangesFault(data) == ~Has(data, {"close"})

\* The event of the row at position i of the selection: idx is its label,
\* and the three values are looked up by that label.
TrendEvent(data, sma_20, sma_50, i, type) ==
    [type      |-> type,
     timestamp |-> data.index[i],
     price     |-> AtLabel(data.index, data.close, data.index[i]),
     sma_20    |-> AtLabel(data.index, sma_20, data.index[i]),
     sma_50    |-> AtLabel(data.index, sma_50, data.index[i])]

\* The bullish crossovers in row order, then the bearish ones in row order.
_detect_trend_changes(data) ==
    IF TrendChangesFault(data) THEN << >>
    ELSE
    LET sma_20 == RollingMean(data.close, SmaFast)
        sma_50 == RollingMean(data.close, SmaSlow)
        IsUp(i) == SmaCrossover(sma_20, sma_50, i)
        IsDown(i) == SmaCrossunder(sma_20, sma_50, i)
        bullish_crosses == SelectSeq(Positions(Len(data.index)), IsUp)
        bearish_crosses == SelectSeq(Positions(Len(data.index)), IsDown)
    IN  [k \in 1..Len(bullish_crosses) |->
            TrendEvent(data, sma_20, sma_50, bullish_crosses[k], "bullish_crossover")]
        \o
        [k \in 1..Len(bearish_crosses) |->
            TrendEvent(data, sma_20, sma_50, bearish_crosses[k], "bearish_crossover")]

---------------------------------------------------------------------------
(* _detect_volume_anomalies *)

VolumeWindow == 20

SeqSumSq(s, lo, hi) == SeqSum([j \in DOMAIN s |-> s[j] * s[j]], lo, hi)

\* n * (n - 1) times the sample variance (ddof = 1) of the window ending at i.
VarianceNum(volume, i) ==
    VolumeWindow * SeqSumSq(volume, i - VolumeWindow + 1, i)
    - SeqSum(volume, i - VolumeWindow + 1, i) * SeqSum(volume, i - VolumeWindow + 1, i)

\* n * (volume[i] - mean of the window ending at i)
DeviationNum(volume, i) ==
    VolumeWindow * volume[i] - SeqSum(volume, i - VolumeWindow + 1, i)

\* The comparison taken with >= in place of >.
VolumeIsHigh_at_least(volume, i) ==
    /\ RollDefined(Len(volume), i, VolumeWindow, FALSE)
    /\ DeviationNum(volume, i) >= 0
    /\ DeviationNum(volume, i) * DeviationNum(volume, i) * (VolumeWindow - 1)
         >= 4 * VolumeWindow * VarianceNum(volume, i)

\* data['volume'] > avg_volume + 2 * volume_std at position i.  With
\* d = volume - mean > 0 the comparison is d^2 > 4 var, that is
\* (n d)^2 (n - 1) > 4 n (n^2 (n-1) var / (n (n-1))).
VolumeIsHigh(volume, i) ==
    /\ RollDefined(Len(volume), i, VolumeWindow, FALSE)
    /\ DeviationNum(volume, i) > 0
    /\ DeviationNum(volume, i) * DeviationNum(volume, i) * (VolumeWindow - 1)
         > 4 * VolumeWindow * VarianceNum(volume, i)

VolumeAnomaliesFault(data) == ~Has(data, {"volume"})

\* deviation = (volume - avg) / std is irrational in general; the event keeps
\* its square, deviation2 = (volume - avg)^2 / var.
VolumeEvent(data, i) ==
    [type       |-> "high_volume",
     timestamp  |-> data.index[i],
     volume     |-> data.volume[i],
     avg_volume |-> Q(SeqSum(data.volume, i - VolumeWindow + 1, i), VolumeWindow),
     deviation2 |-> IF VarianceNum(data.volume, i) = 0 THEN NaN
                    ELSE Q(DeviationNum(data.volume, i) * DeviationNum(data.volume, i)
                             * (VolumeWindow - 1),
                           VolumeWindow * VarianceNum(data.volume, i))]

_detect_volume_anomalies(data) ==
    IF VolumeAnomaliesFault(data) THEN << >>
    ELSE
    LET IsHigh(i) == VolumeIsHigh(data.volume, i)
        at == SelectSeq(Positions(Len(data.index)), IsHigh)
    IN  [k \in 1..Len(at) |-> VolumeEvent(data, at[k])]

---------------------------------------------------------------------------
(* scipy.signal.find_peaks(x, distance=5) *)

PeakDistance == 5

AsValues(s) == [i \in 1..Len(s) |-> [nan |-> FALSE, num |-> s[i], den |-> 1]]

Negated(x) == [i \in 1..Len(x) |-> Neg(x[i])]

\* _local_maxima_1d: from the rising edge at i the scan runs ahead over the
\* plateau of samples equal to x[i], never past the last sample.
RECURSIVE PlateauEnd(_, _, _)
PlateauEnd(x, i, i_ahead) ==
    IF i_ahead < Len(x) /\ Eq(x[i_ahead], x[i])
    THEN PlateauEnd(x, i, i_ahead + 1)
    ELSE i_ahead

\* A peak is a plateau with a strictly lower sample on each side; the peak is
\* reported at the middle of the plateau, (left + right) // 2.
LocalMaxima(x) ==
    LET IsEdge(i) ==
            /\ i >= 2
            /\ i <= Len(x) - 1
            /\ Lt(x[i - 1], x[i])
            /\ Lt(x[PlateauEnd(x, i, i + 1)], x[i])
        edges == SelectSeq(Positions(Len(x)), IsEdge)
    IN  [k \in 1..Len(edges) |->
            (edges[k] + PlateauEnd(x, edges[k], edges[k] + 1) - 1) \div 2]

\* np.argsort(priority), for the at most 16 peaks that numpy sorts by
\* insertion: ascending priority, equal priorities in ascending position.
RECURSIVE InsertByPriority(_, _, _)
InsertByPriority(order, j, priority) ==
    IF order = << >> \/ ~Lt(priority[j], priority[order[Len(order)]])
    THEN Append(order, j)
    ELSE Append(InsertByPriority(SubSeq(order, 1, Len(order) - 1), j, priority),
                order[Len(order)])

RECURSIVE ArgSort(_, _)
ArgSort(priority, k) ==
    IF k = 0 THEN << >>
    ELSE InsertByPriority(ArgSort(priority, k - 1), k, priority)

\* _select_by_peak_distance: from the highest priority down, a peak that is
\* still kept removes every other peak closer than the distance.
RECURSIVE KeepByDistance(_, _, _, _)
KeepByDistance(peaks, order, i, keep) ==
    IF i = 0 THEN keep
    ELSE LET j == order[i]
             near == {k \in keep : k # j /\ Abs(peaks[k] - peaks[j]) < PeakDistance}
         IN  KeepByDistance(peaks, order, i - 1,
                            IF j \in keep THEN keep \ near ELSE keep)

\* The positions find_peaks returns, ascending.
FindPeaks(x) ==
    LET peaks == LocalMaxima(x)
        priority == [k \in 1..Len(peaks) |-> x[peaks[k]]]
        order == ArgSort(priority, Len(peaks))
        keep == KeepByDistance(peaks, order, Len(peaks), 1..Len(peaks))
        InKeep(k) == k \in keep
        kept == SelectSeq(Positions(Len(peaks)), InKeep)
    IN  [k \in 1..Len(kept) |-> peaks[kept[k]]]

---------------------------------------------------------------------------
(* _detect_divergences *)

MinRsiLen == 20

Sub(a, b) == Q(a.num * b.den - b.num * a.den, a.den * b.den)

Mul(a, b) == Q(a.num * b.num, a.den * b.den)

AbsQ(a) == [nan |-> FALSE, num |-> Abs(a.num), den |-> a.den]

\* (y2 - y1) / (x2 - x1) for positions x1 < x2
Slope(y1, y2, x1, x2) == Mul(Sub(y2, y1), Q(1, x2 - x1))

DivergencesFault(data, patterns_config) == ~Has(data, {"close"})

\* The range taken without its two ends.
InRange_open(extrema, lo, hi) ==
    LET Inside(k) == extrema[k] > lo /\ extrema[k] < hi
        at == SelectSeq(Positions(Len(extrema)), Inside)
    IN  [k \in 1..Len(at) |-> extrema[at[k]]]

\* The extrema of the other series inside [lo, hi], ascending.
InRange(extrema, lo, hi) ==
    LET Inside(k) == extrema[k] >= lo /\ extrema[k] <= hi
        at == SelectSeq(Positions(Len(extrema)), Inside)
    IN  [k \in 1..Len(at) |-> extrema[at[k]]]

\* The test without its last condition, the one on the strength.
DivergenceAt_any_strength(price, rsi, rsi_extrema, prev, cur, sign, min_strength) ==
    LET price_slope == Slope(price[prev], price[cur], prev, cur)
        in_range == InRange(rsi_extrema, prev, cur)
        first == in_range[1]
        last == in_range[Len(in_range)]
        rsi_slope == Slope(rsi[first], rsi[last], first, last)
    IN  /\ Len(in_range) >= 2
        /\ sign * price_slope.num < 0
        /\ sign * rsi_slope.num > 0

\* The test of one pair of consecutive price extrema; sign is 1 for troughs
\* (bullish: price slope < 0, RSI slope > 0) and -1 for peaks (bearish).
DivergenceAt(price, rsi, rsi_extrema, prev, cur, sign, min_strength) ==
    LET price_slope == Slope(price[prev], price[cur], prev, cur)
        in_range == InRange(rsi_extrema, prev, cur)
        first == in_range[1]
        last == in_range[Len(in_range)]
        rsi_slope == Slope(rsi[first], rsi[last], first, last)
        strength == AbsQ(Mul(price_slope, rsi_slope))
    IN  /\ Len(in_range) >= 2
        /\ sign * price_slope.num < 0
        /\ sign * rsi_slope.num > 0
        /\ Gt(strength, Q(min_strength, 10))

DivergenceStrength(price, rsi, rsi_extrema, prev, cur) ==
    LET in_range == InRange(rsi_extrema, prev, cur)
        first == in_range[1]
        last == in_range[Len(in_range)]
    IN  AbsQ(Mul(Slope(price[prev], price[cur], prev, cur),
                 Slope(rsi[first], rsi[last], first, last)))

\* The event stamped with the earlier extremum of the pair.
DivergenceEvent_at_previous(data, price, rsi, rsi_extrema, prev, cur, type) ==
    [type      |-> type,
     timestamp |-> data.index[prev],
     price     |-> data.close[cur],
     rsi       |-> rsi[cur],
     strength  |-> DivergenceStrength(price, rsi, rsi_extrema, prev, cur)]

DivergenceEvent(data, price, rsi, rsi_extrema, prev, cur, type) ==
    [type      |-> type,
     timestamp |-> data.index[cur],
     price     |-> data.close[cur],
     rsi       |-> rsi[cur],
     strength  |-> DivergenceStrength(price, rsi, rsi_extrema, prev, cur)]

\* The events of one direction, in the order of the price extrema.
DivergencesOf(data, price, rsi, price_extrema, rsi_extrema, sign, type, min_strength) ==
    LET Hit(i) ==
            /\ i >= 2
            /\ DivergenceAt(price, rsi, rsi_extrema, price_extrema[i - 1],
                            price_extrema[i], sign, min_strength)
        hits == SelectSeq(Positions(Len(price_extrema)), Hit)
    IN  [k \in 1..Len(hits) |->
            DivergenceEvent(data, price, rsi, rsi_extrema,
                            price_extrema[hits[k] - 1], price_extrema[hits[k]],
                            type)]

\* The bullish divergences in the order of the price troughs, then the
\* bearish ones in the order of the price peaks.
_detect_divergences(data, patterns_config) ==
    IF DivergencesFault(data, patterns_config) THEN << >>
    ELSE
    LET rsi_period == patterns_config.divergence.rsi_periods
        min_strength == patterns_config.divergence.min_divergence_strength
        returned == _calculate_rsi(data.close, rsi_period)
        rsi == returned.values
        price == AsValues(data.close)
    IN  IF returned.none THEN << >>
        ELSE IF Len(rsi) < MinRsiLen THEN << >>
        ELSE DivergencesOf(data, price, rsi, FindPeaks(Negated(price)),
                           FindPeaks(Negated(rsi)), 1, "bullish_divergence",
                           min_strength)
             \o
             DivergencesOf(data, price, rsi, FindPeaks(price), FindPeaks(rsi),
                           -1, "bearish_divergence", min_strength)

---------------------------------------------------------------------------
(* _calculate_macd *)

MacdFast == 12

MacdSlow == 26

MacdSignalSpan == 9

RECURSIVE Pow(_, _)
Pow(b, e) == IF e = 0 THEN 1 ELSE b * Pow(b, e - 1)

\* The weight Series.ewm(span) gives x[j] in the mean at position i,
\* (1 - alpha)^(i - j) with alpha = 2 / (span + 1), times (span + 1)^(i - 1).
EwmWeight(span, i, j) == Pow(span - 1, i - j) * Pow(span + 1, j - 1)

\* The weighted sum of x[1..k] in the mean at position i.
RECURSIVE EwmSum(_, _, _, _)
EwmSum(x, span, i, k) ==
    IF k = 0 THEN Q(0, 1)
    ELSE Sub(Mul(Q(EwmWeight(span, i, k), 1), x[k]), Neg(EwmSum(x, span, i, k - 1)))

\* The mean of the recursion y[t] = alpha x[t] + (1 - alpha) y[t-1], y[0] = x[0]
\* (ewm with adjust=False).
RECURSIVE EwmMean_recursive(_, _)
EwmMean_recursive(x, span) ==
    IF Len(x) <= 1 THEN x
    ELSE LET before == EwmMean_recursive(SubSeq(x, 1, Len(x) - 1), span)
         IN  Append(before,
                    Sub(Mul(Q(2, span + 1), x[Len(x)]),
                        Neg(Mul(Q(span - 1, span + 1), before[Len(before)]))))

\* Series.ewm(span=span).mean(): adjust is left at its default, True, so the
\* value at position i is the weighted average of x[1..i], the weights
\* divided by their sum.
EwmMean(x, span) ==
    [i \in 1..Len(x) |->
        Mul(EwmSum(x, span, i, i),
            Q(1, SeqSum([j \in 1..i |-> EwmWeight(span, i, j)], 1, i)))]

\* The three series of lines 370-374, for integer closes.
_calculate_macd(close) ==
    LET data == [i \in 1..Len(close) |-> Q(close[i], 1)]
        ema_fast == EwmMean(data, MacdFast)
        ema_slow == EwmMean(data, MacdSlow)
        macd == [i \in 1..Len(close) |-> Sub(ema_fast[i], ema_slow[i])]
        signal_line == EwmMean(macd, MacdSignalSpan)
    IN  [macd      |-> macd,
         signal    |-> signal_line,
         histogram |-> [i \in 1..Len(close) |-> Sub(macd[i], signal_line[i])]]

---------------------------------------------------------------------------
(* _analyze_technical_signals *)

RsiSignalPeriod == 14

RsiOverbought == 70

RsiOversold == 30

\* A key the signals dict does not hold.
Absent == [present |-> FALSE]

\* A finite float the model does not compute.
Float == [float |-> TRUE]

\* x if not pd.isna(x) else None
OrNone(v) == IF v.nan THEN None ELSE v

RsiSignal(rsi, n) ==
    [present    |-> TRUE,
     current    |-> OrNone(rsi[n]),
     overbought |-> Gt(rsi[n], Q(RsiOverbought, 1)),
     oversold   |-> Lt(rsi[n], Q(RsiOversold, 1))]

IsConstant(s) == \A i \in 1..Len(s) : s[i] = s[1]

\* _calculate_macd is built on Series.ewm(span).mean(), whose weights are
\* powers of 11/13, 25/27 and 4/5: the values are beyond integer arithmetic
\* at the series lengths of this model.  What is exact is kept: on a constant
\* series (and on a single bar) every average equals the series, so macd,
\* signal and histogram are 0 and neither crossover flag is set.  Otherwise
\* the three values are finite floats, and the two flags, which exclude each
\* other (macd > signal and macd < signal at the last bar), take one of their
\* three joint values: macd_cross is "none", "bullish" or "bearish".
MacdCrosses(data) ==
    IF ~Has(data, {"close"}) \/ Len(data.index) = 0 \/ IsConstant(data.close)
    THEN {"none"}
    ELSE {"none", "bullish", "bearish"}

MacdSignal(close, macd_cross) ==
    [present           |-> TRUE,
     current           |-> IF IsConstant(close) THEN Q(0, 1) ELSE Float,
     signal            |-> IF IsConstant(close) THEN Q(0, 1) ELSE Float,
     histogram         |-> IF IsConstant(close) THEN Q(0, 1) ELSE Float,
     bullish_crossover |-> macd_cross = "bullish",
     bearish_crossover |-> macd_cross = "bearish"]

\* 'bullish' is True as soon as sma_20 is defined and sma_50 is not.
TrendSignal_fast_only(sma_20, sma_50, n) ==
    [present |-> TRUE,
     sma_20  |-> OrNone(sma_20[n]),
     sma_50  |-> OrNone(sma_50[n]),
     bullish |-> IF sma_20[n].nan THEN "None"
                 ELSE IF sma_50[n].nan \/ Gt(sma_20[n], sma_50[n]) THEN "True"
                 ELSE "False"]

\* 'bullish' is sma_20 > sma_50 when both are defined, else None.
TrendSignal(sma_20, sma_50, n) ==
    [present |-> TRUE,
     sma_20  |-> OrNone(sma_20[n]),
     sma_50  |-> OrNone(sma_50[n]),
     bullish |-> IF sma_20[n].nan \/ sma_50[n].nan THEN "None"
                 ELSE IF Gt(sma_20[n], sma_50[n]) THEN "True" ELSE "False"]

\* data['close'] raises KeyError without the column, and rsi.iloc[-1] raises
\* IndexError on an empty frame: both before the first key is stored.
TechnicalSignalsFault(data) ==
    ~Has(data, {"close"}) \/ Len(data.index) = 0

_analyze_technical_signals(data, macd_cross) ==
    IF TechnicalSignalsFault(data)
    THEN [rsi |-> Absent, macd |-> Absent, trend |-> Absent]
    ELSE [rsi   |-> RsiSignal(_calculate_rsi(data.close, RsiSignalPeriod).values,
                              Len(data.index)),
          macd  |-> MacdSignal(data.close, macd_cross),
          trend |-> TrendSignal(RollingMean(data.close, SmaFast),
                                RollingMean(data.close, SmaSlow),
                                Len(data.index))]

---------------------------------------------------------------------------
(* The inputs of the model: a prefix of equal or steadily rising bars,     *)
(* long enough for every fixed window of the code, followed by a short     *)
(* tail of bars drawn from a palette.                                      *)

MaxTail == 3

PrefixLen == 50

Epoch == 1000

Bar(open, high, low, close, volume) ==
    [open |-> open, high |-> high, low |-> low, close |-> close, volume |-> volume]

FlatBar == Bar(100, 100, 100, 100, 1)

\* k bars before the end of a rising prefix: the close rises by 1 a bar under
\* a flat high.
RisingBar(k) == Bar(99 - k, 100, 99 - k, 100 - k, 1)

UpBar == Bar(100, 104, 99, 103, 3)

DownBar == Bar(100, 101, 96, 97, 3)

\* A malformed bar: its close lies above its high.
OddBar == Bar(95, 96, 94, 98, 3)

Palette == {FlatBar, UpBar, DownBar, OddBar}

Prefixes ==
    {<< >>,
     [i \in 1..PrefixLen |-> FlatBar],
     [i \in 1..PrefixLen |-> RisingBar(PrefixLen - i)]}

\* A bar that opens, peaks, bottoms and closes at one price.
Tick(price) == Bar(price, price, price, price, 1)

\* Two swings: a low at bar 7, a lower low at bar 13 reached on a weaker fall.
WaveCloses ==
    <<106, 108, 110, 112, 109, 106, 103, 105, 107, 109, 106, 107, 102, 104,
      106, 108, 110, 112, 114, 116, 118>>

\* The bar that opens at the close before it and trades between its open and
\* its close.
Candle(closes, i) ==
    LET open == IF i = 1 THEN closes[1] ELSE closes[i - 1]
        close == closes[i]
    IN  Bar(open, IF open > close THEN open ELSE close,
            IF open < close THEN open ELSE close, close, 1)

WavePrefix == [i \in 1..Len(WaveCloses) |-> Candle(WaveCloses, i)]

\* The close stays at 100 while the range and the volume of the bars vary.
WideBar(i) ==
    Bar(100 - (i % 2), 100 + (i % 3), 100 - (i % 2), 100,
        IF i % 7 = 0 THEN 9 ELSE 1 + (i % 2))

WidePrefix == [i \in 1..PrefixLen |-> WideBar(i)]

Tails(len) == UNION {[1..k -> Palette] : k \in 0..len}

RegularIndex(n) == [i \in 1..n |-> Epoch + i]

\* Irregular sampling: a bar every second day.
GappyIndex(n) == [i \in 1..n |-> Epoch + 2 * i]

\* The last bar repeats the timestamp of the bar before it.
RepeatedIndex(n) == [i \in 1..n |-> IF i = n THEN Epoch + n - 1 ELSE Epoch + i]

\* Not chronological: the last two timestamps are exchanged.
UnsortedIndex(n) ==
    [i \in 1..n |-> IF i = n THEN Epoch + n - 1
                    ELSE IF i = n - 1 THEN Epoch + n ELSE Epoch + i]

Inputs ==
    {DataFrame(Columns, RegularIndex(Len(p \o t)), p \o t) :
        p \in Prefixes, t \in Tails(MaxTail)}
    \cup {DataFrame(Columns, GappyIndex(Len(p \o t)), p \o t) :
        p \in Prefixes, t \in Tails(MaxTail - 1)}
    \cup {DataFrame(Columns, UnsortedIndex(Len(p \o t)), p \o t) :
        p \in Prefixes, t \in Tails(MaxTail - 1) \ {<< >>}}
    \cup {DataFrame(Columns \ {c}, RegularIndex(Len(p \o t)), p \o t) :
        c \in {"volume", "close"}, p \in Prefixes, t \in Tails(MaxTail - 1)}
    \cup {DataFrame(Columns, RegularIndex(Len(p \o t)), p \o t) :
        p \in {WavePrefix, WidePrefix}, t \in Tails(MaxTail - 1)}

\* A handful of the series, for runs that call analyze more than once.
FewInputs ==
    {DataFrame(Columns, RegularIndex(Len(rows)), rows) :
        rows \in {<< >>, [i \in 1..PrefixLen |-> FlatBar] \o <<DownBar, UpBar>>,
                  WavePrefix, WidePrefix \o <<FlatBar>>}}
    \cup {DataFrame(Columns, UnsortedIndex(PrefixLen + 2),
                    [i \in 1..PrefixLen |-> FlatBar] \o <<UpBar, UpBar>>)}

Symbols == {"AAPL", "BTC/USDT"}

Configs ==
    {DefaultPatternsConfig,
     [DefaultPatternsConfig EXCEPT !.breakout = BreakoutEntry(TRUE, 2, 5),
                                   !.divergence = DivergenceEntry(TRUE, 3, 0)],
     [DefaultPatternsConfig EXCEPT !.breakout = BreakoutEntry(TRUE, 3, 5)],
     [DefaultPatternsConfig EXCEPT !.breakout = BreakoutEntry(TRUE, -1, 15)],
     [DefaultPatternsConfig EXCEPT !.breakout = BreakoutEntry(FALSE, 20, 15)],
     [DefaultPatternsConfig EXCEPT !.breakout = None],
     [DefaultPatternsConfig EXCEPT !.divergence = None],
     [DefaultPatternsConfig EXCEPT !.support_resistance = None]}

---------------------------------------------------------------------------
(* analyze, a step at a time.  pc names the statement about to run.        *)

\* The dict of lines 27-36; the generation timestamp is left out.
FreshPatterns(symbol) ==
    [symbol             |-> symbol,
     breakouts          |-> << >>,
     divergences        |-> << >>,
     support_resistance |-> << >>,
     trend_changes      |-> << >>,
     volume_anomalies   |-> << >>,
     technical_signals  |-> [rsi |-> Absent, macd |-> Absent, trend |-> Absent]]

EmptyFrame == DataFrame(Columns, << >>, << >>)

\* AnalyzeExcept with the exception raised again after it is logged.
AnalyzeExcept_reraise == [pc |-> "done", outcome |-> "raised"]

\* `except Exception` of lines 62-63: the error is logged and control goes on
\* to the return statement.
AnalyzeExcept == [pc |-> "return", outcome |-> "none"]

\* The pandas releases differ only on a non-monotonic index.
SliceModes(data) ==
    IF IsMonotonicIncreasing(data.index) THEN {"mask"} ELSE {"mask", "locs"}

\* The caller keeps what analyze returned, with the series and the symbol it
\* was called on (results[ticker] in src/main.py).  A returned dict is built
\* by the call that returns it and shares nothing with an earlier one.
Remember_aliased(returned, entry) ==
    [k \in 1..Len(returned) |-> [returned[k] EXCEPT !.patterns = entry.patterns]]
    \o <<entry>>

Remember(returned, entry) == Append(returned, entry)

MaxCalls == 2

\* The series the caller of analyze holds.
Pool(pool) == IF pool = "all" THEN Inputs ELSE FewInputs

\* How the installed pandas slices an unordered index: one way for the whole
\* run when the release is fixed, either way when it is left open.
ReleaseModes(data) ==
    IF pandas_release \in SliceModes(data) THEN {pandas_release}
    ELSE SliceModes(data)

IdleAnalyzer ==
    /\ in_data = EmptyFrame
    /\ in_symbol = ""
    /\ pc = "idle"
    /\ patterns = FreshPatterns("")
    /\ outcome = "none"
    /\ log = {}
    /\ invoked = {}
    /\ results = << >>

IdleFn ==
    /\ fn_args = None
    /\ fn_ret = None
    /\ fn_pc = "idle"

IdleRsi ==
    /\ arg_data = << >>
    /\ arg_period = 0
    /\ ret_rsi = None
    /\ rsi_pc = "idle"

\* PatternAnalyzer(config)
Init ==
    /\ self_patterns_config \in Configs
    /\ pandas_release = "any"
    /\ series_pool = "all"
    /\ IdleAnalyzer
    /\ IdleRsi
    /\ IdleFn

\* analyze(data, symbol) is entered: lines 27-36.  analyze writes no attribute
\* of self and reads only patterns_config, so a later call on the same
\* analyzer starts from the state this one starts from.
Call ==
    /\ pc = "idle"
    /\ \E data \in Pool(series_pool), symbol \in Symbols :
          /\ in_data' = data
          /\ in_symbol' = symbol
          /\ patterns' = FreshPatterns(symbol)
    /\ pc' = "breakouts"
    /\ outcome' = "none"
    /\ log' = {}
    /\ invoked' = {}
    /\ UNCHANGED <<self_patterns_config, results, other_vars>>

\* A step of the try block that reads patterns_config[key]['enabled']: the
\* read raises AttributeError on an entry that is None, outside any
\* detector's own try, and the except clause of analyze takes over.
EntryFault(key) == self_patterns_config[key].none

ToExcept ==
    /\ pc' = "except"
    /\ UNCHANGED <<patterns, invoked, log, outcome>>

\* Lines 40-41.
Breakouts ==
    /\ pc = "breakouts"
    /\ IF EntryFault("breakout") THEN ToExcept
       ELSE IF ~self_patterns_config.breakout.enabled
       THEN pc' = "divergences" /\ UNCHANGED <<patterns, invoked, log, outcome>>
       ELSE /\ \E slice_mode \in ReleaseModes(in_data) :
                 patterns' = [patterns EXCEPT !.breakouts =
                     _detect_breakouts(in_data, self_patterns_config, slice_mode)]
            /\ invoked' = invoked \cup {"breakouts"}
            /\ log' = IF BreakoutsFault(in_data, self_patterns_config)
                      THEN log \cup {"breakouts"} ELSE log
            /\ pc' = "divergences"
            /\ UNCHANGED outcome
    /\ UNCHANGED <<self_patterns_config, in_data, in_symbol, results, other_vars>>

\* Lines 44-45.
Divergences ==
    /\ pc = "divergences"
    /\ IF EntryFault("divergence") THEN ToExcept
       ELSE IF ~self_patterns_config.divergence.enabled
       THEN pc' = "support_resistance"
            /\ UNCHANGED <<patterns, invoked, log, outcome>>
       ELSE /\ patterns' = [patterns EXCEPT !.divergences =
                     _detect_divergences(in_data, self_patterns_config)]
            /\ invoked' = invoked \cup {"divergences"}
            /\ log' = IF DivergencesFault(in_data, self_patterns_config)
                      THEN log \cup {"divergences"} ELSE log
            /\ pc' = "support_resistance"
            /\ UNCHANGED outcome
    /\ UNCHANGED <<self_patterns_config, in_data, in_symbol, results, other_vars>>

\* Lines 48-49.
SupportResistance ==
    /\ pc = "support_resistance"
    /\ IF EntryFault("support_resistance") THEN ToExcept
       ELSE IF ~self_patterns_config.support_resistance.enabled
       THEN pc' = "trend_changes"
            /\ UNCHANGED <<patterns, invoked, log, outcome>>
       ELSE /\ patterns' = [patterns EXCEPT !.support_resistance =
                     _detect_support_resistance(in_data, self_patterns_config)]
            /\ invoked' = invoked \cup {"support_resistance"}
            /\ log' = IF SupportResistanceFault(in_data, self_patterns_config)
                      THEN log \cup {"support_resistance"} ELSE log
            /\ pc' = "trend_changes"
            /\ UNCHANGED outcome
    /\ UNCHANGED <<self_patterns_config, in_data, in_symbol, results, other_vars>>

\* Line 52.
TrendChanges ==
    /\ pc = "trend_changes"
    /\ patterns' = [patterns EXCEPT !.trend_changes = _detect_trend_changes(in_data)]
    /\ invoked' = invoked \cup {"trend_changes"}
    /\ log' = IF TrendChangesFault(in_data) THEN log \cup {"trend_changes"} ELSE log
    /\ pc' = "volume_anomalies"
    /\ UNCHANGED <<self_patterns_config, in_data, in_symbol, outcome, results,
                   other_vars>>

\* Line 55.
VolumeAnomalies ==
    /\ pc = "volume_anomalies"
    /\ patterns' = [patterns EXCEPT !.volume_anomalies =
                        _detect_volume_anomalies(in_data)]
    /\ invoked' = invoked \cup {"volume_anomalies"}
    /\ log' = IF VolumeAnomaliesFault(in_data)
              THEN log \cup {"volume_anomalies"} ELSE log
    /\ pc' = "technical_signals"
    /\ UNCHANGED <<self_patterns_config, in_data, in_symbol, outcome, results,
                   other_vars>>

\* Lines 58-60.
TechnicalSignals ==
    /\ pc = "technical_signals"
    /\ \E macd_cross \in MacdCrosses(in_data) :
          patterns' = [patterns EXCEPT !.technical_signals =
                          _analyze_technical_signals(in_data, macd_cross)]
    /\ invoked' = invoked \cup {"technical_signals"}
    /\ log' = IF TechnicalSignalsFault(in_data)
              THEN log \cup {"technical_signals"} ELSE log
    /\ pc' = "return"
    /\ UNCHANGED <<self_patterns_config, in_data, in_symbol, outcome, results,
                   other_vars>>

\* Lines 62-63.
Except ==
    /\ pc = "except"
    /\ log' = log \cup {"analyze"}
    /\ pc' = AnalyzeExcept.pc
    /\ outcome' = AnalyzeExcept.outcome
    /\ UNCHANGED <<self_patterns_config, in_data, in_symbol, patterns, invoked,
                   results, other_vars>>

\* Line 65: the call ends.  It returns patterns unless the exception left the
\* method.
Return ==
    /\ pc = "return"
    /\ pc' = "done"
    /\ outcome' = IF outcome = "raised" THEN "raised" ELSE "returned"
    /\ results' = Remember(results, [data |-> in_data, symbol |-> in_symbol,
                                     patterns |-> patterns])
    /\ UNCHANGED <<self_patterns_config, in_data, in_symbol, patterns, invoked,
                   log, other_vars>>

\* A further call on the same analyzer, as the loop over the tickers of
\* src/main.py makes it: the analyzer and the results so far are kept.
CallAgain ==
    /\ pc = "done"
    /\ Len(results) < MaxCalls
    /\ \E data \in Pool(series_pool), symbol \in Symbols :
          /\ in_data' = data
          /\ in_symbol' = symbol
          /\ patterns' = FreshPatterns(symbol)
    /\ pc' = "breakouts"
    /\ outcome' = "none"
    /\ log' = {}
    /\ invoked' = {}
    /\ UNCHANGED <<self_patterns_config, results, other_vars>>

Next ==
    \/ Call
    \/ Breakouts
    \/ Divergences
    \/ SupportResistance
    \/ TrendChanges
    \/ VolumeAnomalies
    \/ TechnicalSignals
    \/ Except
    \/ Return

Spec == Init /\ [][Next]_vars

---------------------------------------------------------------------------
(* Several analyze calls on one analyzer, on a few series, under a pandas  *)
(* release that is the same for the whole run.                             *)

CallsConfigs ==
    {DefaultPatternsConfig,
     [DefaultPatternsConfig EXCEPT !.breakout = BreakoutEntry(TRUE, 2, 5),
                                   !.divergence = DivergenceEntry(TRUE, 3, 0)],
     [DefaultPatternsConfig EXCEPT !.support_resistance = None]}

InitCalls ==
    /\ self_patterns_config \in CallsConfigs
    /\ pandas_release \in {"mask", "locs"}
    /\ series_pool = "few"
    /\ IdleAnalyzer
    /\ IdleRsi
    /\ IdleFn

NextCalls == Next \/ CallAgain

SpecCalls == InitCalls /\ [][NextCalls]_vars

---------------------------------------------------------------------------
(* _calculate_rsi called on its own, on every short series of closes.      *)

MaxCloses == 5

MaxPeriod == 3

ClosePrices == {9, 10, 12}

InitRsi ==
    /\ self_patterns_config = DefaultPatternsConfig
    /\ pandas_release = "any"
    /\ series_pool = "all"
    /\ IdleAnalyzer
    /\ IdleFn
    /\ arg_data \in UNION {[1..k -> ClosePrices] : k \in 0..MaxCloses}
    /\ arg_period \in 1..MaxPeriod
    /\ ret_rsi = None
    /\ rsi_pc = "call"

CalculateRsi ==
    /\ rsi_pc = "call"
    /\ ret_rsi' = _calculate_rsi(arg_data, arg_period)
    /\ rsi_pc' = "done"
    /\ UNCHANGED <<analyze_vars, fn_vars, arg_data, arg_period>>

NextRsi == CalculateRsi

SpecRsi == InitRsi /\ [][NextRsi]_vars

---------------------------------------------------------------------------
(* Properties of analyze.                                                  *)

Done == pc = "done"

WellFormedFrame(data) == Has(data, Columns)

\* The entry of the configuration is a dict and enables its detector.
Runs(key) ==
    /\ ~self_patterns_config[key].none
    /\ self_patterns_config[key].enabled

\* C1: a fault in one detector never prevents the others.  When analyze is
\* done, the sequence of every detector that the configuration enables by a
\* well-formed entry, and of every detector that runs unconditionally, equals
\* what that detector computes on the same series; only a detector that
\* failed itself is left with the empty sequence.
C1_FaultIsolation ==
    Done =>
        /\ Runs("breakout") =>
              \E slice_mode \in SliceModes(in_data) :
                  patterns.breakouts
                      = _detect_breakouts(in_data, self_patterns_config, slice_mode)
        /\ Runs("divergence") =>
              patterns.divergences
                  = _detect_divergences(in_data, self_patterns_config)
        /\ Runs("support_resistance") =>
              patterns.support_resistance
                  = _detect_support_resistance(in_data, self_patterns_config)
        /\ patterns.trend_changes = _detect_trend_changes(in_data)
        /\ patterns.volume_anomalies = _detect_volume_anomalies(in_data)
        /\ \E macd_cross \in MacdCrosses(in_data) :
              patterns.technical_signals
                  = _analyze_technical_signals(in_data, macd_cross)

\* A call in which the entry of one detector is None has returned.
C1_Witness ==
    /\ Done
    /\ self_patterns_config.divergence.none
    /\ Len(in_data.index) > PrefixLen

ResultFields ==
    {"symbol", "breakouts", "divergences", "support_resistance",
     "trend_changes", "volume_anomalies", "technical_signals"}

\* C2: for every series and every configuration analyze returns normally,
\* never raising, a result whose symbol is the symbol argument and which
\* holds the fields breakouts, divergences, support_resistance,
\* trend_changes, volume_anomalies and technical_signals.
C2_AlwaysReturns ==
    Done =>
        /\ outcome = "returned"
        /\ patterns.symbol = in_symbol
        /\ ResultFields \subseteq DOMAIN patterns

\* analyze has returned although an exception reached its except clause.
C2_Witness ==
    /\ Done
    /\ outcome = "returned"
    /\ "analyze" \in log
    /\ patterns.symbol = in_symbol
    /\ in_symbol \in Symbols

\* The series analyze must refuse according to C3.
InvalidSeries(data) ==
    Len(data.index) = 0 \/ ~StrictlyIncreasing(data.index)

\* C3: given an empty series or one whose timestamps are not strictly
\* increasing, analyze runs no detector and ends with an explicit failure,
\* not with a result.
C3_InvalidSeriesRejected ==
    (Done /\ InvalidSeries(in_data)) =>
        /\ invoked = {}
        /\ outcome = "raised"

\* analyze is done with a series that is empty or out of order.
C3_Witness == Done /\ InvalidSeries(in_data)

\* C6: a resistance_breakout at bar i has close[i] above the maximum high of
\* the lookback bars ending at bar i-1, and a support_breakout at bar i has
\* close[i] below the minimum low of those bars.
C6_BreakoutBeyondTrailingExtreme ==
    (Done /\ WellFormedFrame(in_data) /\ Runs("breakout")) =>
        \A k \in 1..Len(patterns.breakouts) :
            LET event == patterns.breakouts[k]
                lookback == self_patterns_config.breakout.lookback_periods
                i == Loc(in_data.index, event.timestamp)
                before == (i - lookback)..(i - 1)
            IN  i - lookback >= 1 =>
                    IF event.type = "resistance_breakout"
                    THEN in_data.close[i] > SetMax({in_data.high[j] : j \in before})
                    ELSE in_data.close[i] < SetMin({in_data.low[j] : j \in before})

\* A breakout has been emitted at a bar with lookback bars before it.
C6_Witness ==
    /\ Done
    /\ Runs("breakout")
    /\ \E k \in 1..Len(patterns.breakouts) :
          Loc(in_data.index, patterns.breakouts[k].timestamp)
              > self_patterns_config.breakout.lookback_periods

\* Scenario A: closes rise from bar to bar, and the final bar closes above
\* its open and above the flat high of the 20 bars before it, on 3 times
\* their average volume.
ScenarioA(data) ==
    LET n == Len(data.index)
    IN  /\ WellFormedFrame(data)
        /\ StrictlyIncreasing(data.index)
        /\ n > DefaultLookback
        /\ \A i \in 1..(n - 1) : data.close[i] < data.close[i + 1]
        /\ data.close[n] > data.open[n]
        /\ \A j \in (n - DefaultLookback)..(n - 1) : data.high[j] = data.high[n - 1]
        /\ data.close[n] > data.high[n - 1]
        /\ data.volume[n] * DefaultLookback
             = 3 * SeqSum(data.volume, n - DefaultLookback, n - 1)

\* C7: on scenario A analyze returns exactly one breakout, a
\* resistance_breakout at the final bar with strength > 0.
C7_ScenarioA ==
    (Done /\ ScenarioA(in_data) /\ self_patterns_config = DefaultPatternsConfig) =>
        /\ Len(patterns.breakouts) = 1
        /\ patterns.breakouts[1].type = "resistance_breakout"
        /\ patterns.breakouts[1].timestamp = in_data.index[Len(in_data.index)]
        /\ Gt(patterns.breakouts[1].strength, Q(0, 1))

\* analyze is done with scenario A under the default configuration.
C7_Witness ==
    Done /\ ScenarioA(in_data) /\ self_patterns_config = DefaultPatternsConfig

\* A flat, low-volume series of at least 50 bars: every bar is the same, with
\* open = high = low = close.
FlatSeries(data) ==
    LET n == Len(data.index)
    IN  /\ WellFormedFrame(data)
        /\ StrictlyIncreasing(data.index)
        /\ n >= SmaSlow
        /\ \A i \in 1..n :
              /\ data.close[i] = data.close[1]
              /\ data.open[i] = data.close[1]
              /\ data.high[i] = data.close[1]
              /\ data.low[i] = data.close[1]
              /\ data.volume[i] = data.volume[1]

EventsEmpty ==
    /\ patterns.breakouts = << >>
    /\ patterns.divergences = << >>
    /\ patterns.support_resistance = << >>
    /\ patterns.trend_changes = << >>
    /\ patterns.volume_anomalies = << >>

\* The snapshot holds its three parts, no value of it is None and no flag of
\* it is set.
SnapshotNonNullAllFalse ==
    LET signals == patterns.technical_signals
    IN  /\ signals.rsi.present /\ signals.macd.present /\ signals.trend.present
        /\ signals.rsi.current # None
        /\ ~signals.rsi.overbought /\ ~signals.rsi.oversold
        /\ signals.macd.current # None
        /\ signals.macd.signal # None
        /\ signals.macd.histogram # None
        /\ ~signals.macd.bullish_crossover /\ ~signals.macd.bearish_crossover
        /\ signals.trend.sma_20 # None
        /\ signals.trend.sma_50 # None
        /\ signals.trend.bullish = "False"

\* C8: on a flat, low-volume series of at least 50 bars analyze returns the
\* five event sequences empty and a snapshot whose fields are non-null and
\* whose flags are all false.
C8_FlatSeriesRoundTrip ==
    (Done /\ FlatSeries(in_data) /\ self_patterns_config = DefaultPatternsConfig) =>
        /\ EventsEmpty
        /\ SnapshotNonNullAllFalse

\* analyze is done with a flat series under the default configuration.
C8_Witness ==
    Done /\ FlatSeries(in_data) /\ self_patterns_config = DefaultPatternsConfig

\* The bars that touch a level: the candidate bars of the level's type whose
\* high (resistance) or low (support) is a member of the level's cluster.
MemberBars(data, event, tolerance) ==
    LET n == Len(data.index)
        column == IF event.type = "resistance" THEN data.high ELSE data.low
        Extreme(i) == IF event.type = "resistance"
                      THEN RollingMax(column, SRWindow, TRUE, i)
                      ELSE RollingMin(column, SRWindow, TRUE, i)
        candidates == IF event.type = "resistance" THEN ResistanceCandidates(data)
                      ELSE SupportCandidates(data)
        clustered == _cluster_levels(candidates, tolerance)
        cluster == clustered[CHOOSE k \in 1..Len(clustered) :
                                 clustered[k].level = event.level]
        members == {cluster.touches[k] : k \in 1..Len(cluster.touches)}
    IN  {i \in 1..n : /\ RollDefined(n, i, SRWindow, TRUE)
                      /\ column[i] = Extreme(i)
                      /\ column[i] \in members}

\* C9: last_touch of a level is the latest timestamp among the bars that
\* touch the level.
C9_LastTouchIsLatestTimestamp ==
    (Done /\ WellFormedFrame(in_data) /\ Runs("support_resistance")) =>
        \A k \in 1..Len(patterns.support_resistance) :
            LET event == patterns.support_resistance[k]
                bars == MemberBars(in_data, event,
                                   self_patterns_config.support_resistance.tolerance)
            IN  event.last_touch = SetMax({in_data.index[i] : i \in bars})

\* analyze is done and has emitted a level.
C9_Witness ==
    /\ Done
    /\ WellFormedFrame(in_data)
    /\ Len(patterns.support_resistance) > 0

Chronological(events) ==
    \A a, b \in 1..Len(events) :
        a < b => events[a].timestamp <= events[b].timestamp

\* C10: each of breakouts, divergences, trend_changes and volume_anomalies
\* lists its events in the order of their bars, whatever their direction.
C10_EventsChronological ==
    (Done /\ StrictlyIncreasing(in_data.index)) =>
        /\ Chronological(patterns.breakouts)
        /\ Chronological(patterns.divergences)
        /\ Chronological(patterns.trend_changes)
        /\ Chronological(patterns.volume_anomalies)

\* analyze is done with a sequence that holds events of both directions.
C10_Witness ==
    /\ Done
    /\ StrictlyIncreasing(in_data.index)
    /\ \E a, b \in 1..Len(patterns.breakouts) :
          patterns.breakouts[a].type # patterns.breakouts[b].type

---------------------------------------------------------------------------
(* Properties of _calculate_rsi.                                           *)

RsiDone == rsi_pc = "done" /\ ~ret_rsi.none

\* C4: every defined value of the series _calculate_rsi returns lies in
\* [0, 100].
C4_RsiInRange ==
    RsiDone =>
        \A i \in 1..Len(ret_rsi.values) :
            LET value == ret_rsi.values[i]
            IN  ~value.nan => Le(Q(0, 1), value) /\ Le(value, Q(100, 1))

\* The returned series holds a value strictly inside the interval, the value
\* 0 and the value 100.
C4_Witness ==
    /\ RsiDone
    /\ \E i \in 1..Len(ret_rsi.values) :
          Lt(Q(0, 1), ret_rsi.values[i]) /\ Lt(ret_rsi.values[i], Q(100, 1))
    /\ \E i \in 1..Len(ret_rsi.values) : Eq(ret_rsi.values[i], Q(0, 1))
    /\ \E i \in 1..Len(ret_rsi.values) : Eq(ret_rsi.values[i], Q(100, 1))

\* The window of position i is fully populated with differences of two
\* closes (it does not reach back to the first bar) and holds no loss.
ZeroLossWindow(close, period, i) ==
    /\ i - period >= 1
    /\ SeqSum(LossOf(Diff(close)), i - period + 1, i) = 0

\* C5: where the window is fully populated and its average loss is zero, the
\* RSI is 100, also on a flat series.
C5_ZeroLossIsHundred ==
    RsiDone =>
        \A i \in 1..Len(arg_data) :
            ZeroLossWindow(arg_data, arg_period, i) =>
                Eq(ret_rsi.values[i], Q(100, 1))

\* _calculate_rsi has returned for a series with a fully populated window
\* that holds no loss.
C5_Witness ==
    /\ RsiDone
    /\ \E i \in 1..Len(arg_data) : ZeroLossWindow(arg_data, arg_period, i)

---------------------------------------------------------------------------
(* _cluster_levels on its own: called on candidate values, then called     *)
(* again on the keys of the dict it returned.                              *)

MaxLevels == 3

\* Positive candidate values, and tolerances in hundredths, inside (0, 1).
ClusterValues == {10, 11, 12, 13, 20}

Tolerances == {2, 10, 17}

LevelSeries == UNION {[1..n -> ClusterValues] : n \in 0..MaxLevels}

\* list(clustered.keys()): the keys in insertion order.
Keys(clustered) == [k \in 1..Len(clustered) |-> clustered[k].level]

InitCluster ==
    /\ self_patterns_config = DefaultPatternsConfig
    /\ pandas_release = "any"
    /\ series_pool = "all"
    /\ IdleAnalyzer
    /\ IdleRsi
    /\ fn_args \in [levels : LevelSeries, tolerance : Tolerances, again : {FALSE}]
    /\ fn_ret = None
    /\ fn_pc = "call"

ClusterLevels ==
    /\ fn_pc = "call"
    /\ fn_ret' = _cluster_levels(fn_args.levels, fn_args.tolerance)
    /\ fn_pc' = "done"
    /\ UNCHANGED <<analyze_vars, rsi_vars, fn_args>>

\* The keys of the returned dict become the candidates of a second call.
ClusterTheKeys ==
    /\ fn_pc = "done"
    /\ ~fn_args.again
    /\ fn_args' = [levels |-> Keys(fn_ret), tolerance |-> fn_args.tolerance,
                   again |-> TRUE]
    /\ fn_ret' = None
    /\ fn_pc' = "call"
    /\ UNCHANGED <<analyze_vars, rsi_vars>>

NextCluster == ClusterLevels \/ ClusterTheKeys

SpecCluster == InitCluster /\ [][NextCluster]_vars

\* C11: clustering the keys that _cluster_levels returned gives one cluster
\* per key, holding that key alone, in the same order; and in any returned
\* dict a key lies further from every smaller key than the tolerance, measured
\* as the code measures it, relative to the smaller (earlier) key.
C11_ClusteringIdempotentOnKeys ==
    fn_pc = "done" =>
        /\ \A a, b \in 1..Len(fn_ret) :
              a < b =>
                  /\ fn_ret[a].level < fn_ret[b].level
                  /\ (fn_ret[b].level - fn_ret[a].level) * 100
                         > fn_args.tolerance * fn_ret[a].level
        /\ fn_args.again =>
              fn_ret = [k \in 1..Len(fn_args.levels) |->
                           [level |-> fn_args.levels[k],
                            touches |-> <<fn_args.levels[k]>>]]

\* The keys of a clustering that merged candidates have been clustered again.
C11_Witness ==
    /\ fn_pc = "done"
    /\ fn_args.again
    /\ Len(fn_ret) = 2
    /\ fn_args.tolerance = 17
    /\ fn_ret[1].level = 10
    /\ fn_ret[2].level = 12

---------------------------------------------------------------------------
(* The detectors on their own, each called once on a series.               *)

\* The series of one-price bars with the given closes, on a regular index.
TickFrame(closes) ==
    DataFrame(Columns, RegularIndex(Len(closes)),
              [i \in 1..Len(closes) |-> Tick(closes[i])])

\* The closes turned upside down: lows become highs.
Mirrored(closes) == [i \in 1..Len(closes) |-> 220 - closes[i]]

\* The third series falls to its second low as steadily as to its first.
WaveFrames ==
    {TickFrame(SubSeq(c, 1, n)) :
        c \in {WaveCloses, Mirrored(WaveCloses),
               <<106, 108, 110, 112, 109, 106, 103, 105, 107, 109, 106, 103,
                 100, 102, 104, 106, 108, 110, 112, 114, 116>>},
        n \in 0..Len(WaveCloses)}

DivergenceConfigs ==
    {[DefaultPatternsConfig EXCEPT !.divergence = DivergenceEntry(TRUE, p, m)] :
        p \in {3, DefaultRsiPeriods}, m \in {0, DefaultMinDivergenceStrength, 4}}

DivergenceCalls ==
    [fn : {"_detect_divergences"}, data : WaveFrames, config : DivergenceConfigs]

\* Long enough for both moving averages, on an index that is regular or
\* repeats its last timestamp.
TrendFrames ==
    {DataFrame(Columns, RegularIndex(Len(p \o t)), p \o t) :
        p \in Prefixes \ {<< >>}, t \in Tails(MaxTail - 1)}
    \cup {DataFrame(Columns, RepeatedIndex(Len(p \o t)), p \o t) :
        p \in Prefixes \ {<< >>}, t \in Tails(MaxTail - 1)}

TrendCalls == [fn : {"_detect_trend_changes"}, data : TrendFrames]

\* Fewer bars than the volume window, a window of equal volumes, and
\* windows whose volumes differ.
VolumeFrames ==
    {DataFrame(Columns, RegularIndex(Len(p \o t)), p \o t) :
        p \in Prefixes \cup {WidePrefix}, t \in Tails(MaxTail - 1)}

VolumeCalls == [fn : {"_detect_volume_anomalies"}, data : VolumeFrames]

\* min_touches from one to four, under the default tolerance and a wider one.
LevelConfigs ==
    {[DefaultPatternsConfig EXCEPT
          !.support_resistance = SupportResistanceEntry(TRUE, m, t)] :
        m \in 1..4, t \in {DefaultTolerance, 5}}

\* Four local highs, three of them within two percent of the lowest, and
\* lows that repeat one price.
LevelCloses == <<100, 100, 102, 100, 100, 103, 100, 100, 101, 100, 100, 120, 100, 100>>

LevelCalls ==
    [fn : {"_detect_support_resistance"},
     data : WaveFrames \cup {TickFrame(SubSeq(LevelCloses, 1, n)) :
                                n \in 0..Len(LevelCloses)},
     config : LevelConfigs]

\* Series of 0 to 21 bars and of 50 to 52 bars: shorter and longer than each
\* of the windows 14, 20 and 50.
TechnicalCalls ==
    [fn : {"_analyze_technical_signals"}, data : WaveFrames \cup VolumeFrames]

MaxShort == 5

\* Every series of up to MaxShort rising, falling and malformed bars, a day
\* apart.
ShortFrames ==
    {DataFrame(Columns, RegularIndex(Len(t)), t) :
        t \in UNION {[1..k -> {UpBar, DownBar, OddBar}] : k \in 0..MaxShort}}

\* Windows of 2 to 5 bars with a volume threshold of 0.5, and the defaults.
BreakoutConfigs ==
    {[DefaultPatternsConfig EXCEPT !.breakout = BreakoutEntry(TRUE, l, 5)] :
        l \in 2..5}
    \cup {DefaultPatternsConfig}

BreakoutCalls ==
    [fn : {"_detect_breakouts"}, data : ShortFrames \cup FewInputs,
     config : BreakoutConfigs]

\* Closes of up to two bars that rise, fall and stay: the fractions of a
\* third bar are beyond the integers of the model.
MacdCalls ==
    [fn : {"_calculate_macd"},
     data : {SubSeq(c, 1, n) : c \in {<<10, 12>>, <<12, 10>>, <<10, 10>>, <<9, 13>>},
                               n \in 0..2}]

InitDetectors ==
    /\ self_patterns_config = DefaultPatternsConfig
    /\ pandas_release = "any"
    /\ series_pool = "all"
    /\ IdleAnalyzer
    /\ IdleRsi
    /\ fn_args \in DivergenceCalls \cup TrendCalls \cup VolumeCalls \cup LevelCalls
                   \cup TechnicalCalls \cup BreakoutCalls
                   \cup MacdCalls
    /\ fn_ret = None
    /\ fn_pc = "call"

DetectDivergences ==
    /\ fn_pc = "call"
    /\ fn_args.fn = "_detect_divergences"
    /\ fn_ret' = _detect_divergences(fn_args.data, fn_args.config)
    /\ fn_pc' = "done"
    /\ UNCHANGED <<analyze_vars, rsi_vars, fn_args>>

DetectTrendChanges ==
    /\ fn_pc = "call"
    /\ fn_args.fn = "_detect_trend_changes"
    /\ fn_ret' = _detect_trend_changes(fn_args.data)
    /\ fn_pc' = "done"
    /\ UNCHANGED <<analyze_vars, rsi_vars, fn_args>>

DetectVolumeAnomalies ==
    /\ fn_pc = "call"
    /\ fn_args.fn = "_detect_volume_anomalies"
    /\ fn_ret' = _detect_volume_anomalies(fn_args.data)
    /\ fn_pc' = "done"
    /\ UNCHANGED <<analyze_vars, rsi_vars, fn_args>>

AnalyzeTechnicalSignals ==
    /\ fn_pc = "call"
    /\ fn_args.fn = "_analyze_technical_signals"
    /\ \E macd_cross \in MacdCrosses(fn_args.data) :
          fn_ret' = _analyze_technical_signals(fn_args.data, macd_cross)
    /\ fn_pc' = "done"
    /\ UNCHANGED <<analyze_vars, rsi_vars, fn_args>>

DetectBreakouts ==
    /\ fn_pc = "call"
    /\ fn_args.fn = "_detect_breakouts"
    /\ \E slice_mode \in SliceModes(fn_args.data) :
          fn_ret' = _detect_breakouts(fn_args.data, fn_args.config, slice_mode)
    /\ fn_pc' = "done"
    /\ UNCHANGED <<analyze_vars, rsi_vars, fn_args>>

CalculateMacd ==
    /\ fn_pc = "call"
    /\ fn_args.fn = "_calculate_macd"
    /\ fn_ret' = _calculate_macd(fn_args.data)
    /\ fn_pc' = "done"
    /\ UNCHANGED <<analyze_vars, rsi_vars, fn_args>>

DetectSupportResistance ==
    /\ fn_pc = "call"
    /\ fn_args.fn = "_detect_support_resistance"
    /\ fn_ret' = _detect_support_resistance(fn_args.data, fn_args.config)
    /\ fn_pc' = "done"
    /\ UNCHANGED <<analyze_vars, rsi_vars, fn_args>>

NextDetectors ==
    \/ DetectDivergences
    \/ DetectTrendChanges
    \/ DetectVolumeAnomalies
    \/ DetectSupportResistance
    \/ AnalyzeTechnicalSignals
    \/ DetectBreakouts
    \/ CalculateMacd

SpecDetectors == InitDetectors /\ [][NextDetectors]_vars

Returned(fn) == fn_pc = "done" /\ fn_args.fn = fn

\* C12: every event _detect_divergences returns has a strength above the
\* configured min_divergence_strength, and not below zero.
C12_DivergenceStrengthAboveMinimum ==
    Returned("_detect_divergences") =>
        \A k \in 1..Len(fn_ret) :
            /\ Gt(fn_ret[k].strength,
                  Q(fn_args.config.divergence.min_divergence_strength, 10))
            /\ fn_ret[k].strength.num >= 0

\* A divergence is returned under the default minimum of 0.3.
C12_Witness ==
    /\ Returned("_detect_divergences")
    /\ fn_args.config.divergence.min_divergence_strength
           = DefaultMinDivergenceStrength
    /\ Len(fn_ret) > 0

\* C13: every breakout event in the result of analyze, of either direction,
\* has a strength that is a number and is not below zero.
C13_BreakoutStrengthNonNegative ==
    \A k \in 1..Len(patterns.breakouts) :
        /\ ~patterns.breakouts[k].strength.nan
        /\ patterns.breakouts[k].strength.num >= 0

\* analyze returned a breakout of each direction, and one of them closed
\* inside the range of the 20 days up to it, where the excursion is negative.
C13_Witness ==
    /\ Done
    /\ \E k \in 1..Len(patterns.breakouts) :
          /\ patterns.breakouts[k].type = "resistance_breakout"
          /\ patterns.breakouts[k].price
                 < in_data.high[Loc(in_data.index, patterns.breakouts[k].timestamp)]
    /\ \E k \in 1..Len(patterns.breakouts) :
          patterns.breakouts[k].type = "support_breakout"

\* C14: _detect_trend_changes never returns a bullish_crossover and a
\* bearish_crossover that carry the same timestamp.
C14_NoOppositeCrossoversAtOneTimestamp ==
    Returned("_detect_trend_changes") =>
        \A j, k \in 1..Len(fn_ret) :
            fn_ret[j].timestamp = fn_ret[k].timestamp
                => fn_ret[j].type = fn_ret[k].type

\* A crossover of each direction has been returned for one series.
C14_Witness ==
    /\ Returned("_detect_trend_changes")
    /\ \E j, k \in 1..Len(fn_ret) :
          /\ fn_ret[j].type = "bullish_crossover"
          /\ fn_ret[k].type = "bearish_crossover"

\* Scenario B: the close is the same at every bar and lies inside the range
\* of its bar; the volumes are whatever they are.
FlatPriceSeries(data) ==
    /\ WellFormedFrame(data)
    /\ \A i \in 1..Len(data.index) :
          /\ data.close[i] = data.close[1]
          /\ data.high[i] >= data.close[i]
          /\ data.close[i] >= data.low[i]

\* C15: on a flat-price series analyze returns no breakout event and no
\* trend change event.
C15_ScenarioB ==
    (Done /\ FlatPriceSeries(in_data)) =>
        /\ patterns.breakouts = << >>
        /\ patterns.trend_changes = << >>

\* analyze is done, all detectors having run, with a flat-price series long
\* enough for both moving averages whose ranges and volumes vary, a bar of
\* it trading more than the breakout threshold times the trailing average.
C15_Witness ==
    /\ Done
    /\ FlatPriceSeries(in_data)
    /\ Len(in_data.index) > SmaSlow
    /\ invoked = {"breakouts", "divergences", "support_resistance",
                  "trend_changes", "volume_anomalies", "technical_signals"}
    /\ Runs("breakout")
    /\ \E i, j \in 1..Len(in_data.index) :
          /\ in_data.high[i] # in_data.high[j]
          /\ in_data.volume[i] # in_data.volume[j]
    /\ \E i \in 1..Len(in_data.index) :
          HighVolume(in_data, self_patterns_config.breakout.lookback_periods,
                     self_patterns_config.breakout.volume_threshold, i)

UniqueTimestamps(data) ==
    \A i, j \in 1..Len(data.index) : data.index[i] = data.index[j] => i = j

\* The bar at position i is the later one of a pair of consecutive price
\* extrema that passes the divergence test of the event's direction.
DivergenceTriggeredAt(data, patterns_config, type, i) ==
    LET rsi == _calculate_rsi(data.close, patterns_config.divergence.rsi_periods).values
        price == AsValues(data.close)
        sign == IF type = "bullish_divergence" THEN 1 ELSE -1
        price_extrema == IF sign = 1 THEN FindPeaks(Negated(price))
                         ELSE FindPeaks(price)
        rsi_extrema == IF sign = 1 THEN FindPeaks(Negated(rsi)) ELSE FindPeaks(rsi)
    IN  \E k \in 2..Len(price_extrema) :
            /\ price_extrema[k] = i
            /\ DivergenceAt(price, rsi, rsi_extrema, price_extrema[k - 1], i, sign,
                            patterns_config.divergence.min_divergence_strength)

\* C16: on a series with unique timestamps, every breakout, divergence, trend
\* change and volume anomaly in the result of analyze carries the timestamp of
\* a bar of the series, and the trigger of its detector holds at that bar.
C16_EventTimestampIsTriggeringBar ==
    (Done /\ WellFormedFrame(in_data) /\ UniqueTimestamps(in_data)) =>
        LET n == Len(in_data.index)
            At(event) == Loc(in_data.index, event.timestamp)
            OnBar(event) == \E i \in 1..n : in_data.index[i] = event.timestamp
            breakout == self_patterns_config.breakout
            sma_20 == RollingMean(in_data.close, SmaFast)
            sma_50 == RollingMean(in_data.close, SmaSlow)
        IN  /\ \A k \in 1..Len(patterns.breakouts) :
                  LET event == patterns.breakouts[k]
                  IN  /\ OnBar(event)
                      /\ HighVolume(in_data, breakout.lookback_periods,
                                    breakout.volume_threshold, At(event))
                      /\ IF event.type = "resistance_breakout"
                         THEN ResistanceBreak(in_data, breakout.lookback_periods,
                                              At(event))
                         ELSE SupportBreak(in_data, breakout.lookback_periods,
                                           At(event))
            /\ \A k \in 1..Len(patterns.divergences) :
                  LET event == patterns.divergences[k]
                  IN  /\ OnBar(event)
                      /\ DivergenceTriggeredAt(in_data, self_patterns_config,
                                               event.type, At(event))
            /\ \A k \in 1..Len(patterns.trend_changes) :
                  LET event == patterns.trend_changes[k]
                  IN  /\ OnBar(event)
                      /\ IF event.type = "bullish_crossover"
                         THEN SmaCrossover(sma_20, sma_50, At(event))
                         ELSE SmaCrossunder(sma_20, sma_50, At(event))
            /\ \A k \in 1..Len(patterns.volume_anomalies) :
                  LET event == patterns.volume_anomalies[k]
                  IN  /\ OnBar(event)
                      /\ VolumeIsHigh(in_data.volume, At(event))

\* analyze returned, for a series with unique timestamps, a divergence and a
\* breakout.
C16_Witness ==
    /\ Done
    /\ WellFormedFrame(in_data)
    /\ UniqueTimestamps(in_data)
    /\ patterns.divergences # << >>
    /\ patterns.breakouts # << >>

---------------------------------------------------------------------------
(* The try block of analyze with its six steps taken in another order.     *)

Detectors ==
    {"breakouts", "divergences", "support_resistance", "trend_changes",
     "volume_anomalies", "technical_signals"}

Orders ==
    {order \in [1..6 -> Detectors] :
        \A i, j \in 1..6 : order[i] = order[j] => i = j}

\* The entry of the configuration a step reads before it calls its detector;
\* the last three steps read none.
EntryKey(step) ==
    CASE step = "breakouts" -> "breakout"
      [] step = "divergences" -> "divergence"
      [] step = "support_resistance" -> "support_resistance"
      [] OTHER -> ""

ReadFaults(step) == EntryKey(step) # "" /\ EntryFault(EntryKey(step))

\* The detectors that are called when the steps run in the order: a step is
\* reached when no read up to it raised, and calls its detector unless its
\* entry disables it.
CalledIn(order) ==
    {order[k] : k \in {k \in 1..6 :
        /\ \A j \in 1..k : ~ReadFaults(order[j])
        /\ EntryKey(order[k]) # ""
               => self_patterns_config[EntryKey(order[k])].enabled}}

\* The dict analyze returns when exactly the detectors in `called` were
\* called: each stores its output under its key, the other keys keep the
\* values of lines 27-36.
ResultOf(called, slice_mode, macd_cross) ==
    [symbol |-> in_symbol,
     breakouts |->
        IF "breakouts" \in called
        THEN _detect_breakouts(in_data, self_patterns_config, slice_mode)
        ELSE << >>,
     divergences |->
        IF "divergences" \in called
        THEN _detect_divergences(in_data, self_patterns_config) ELSE << >>,
     support_resistance |->
        IF "support_resistance" \in called
        THEN _detect_support_resistance(in_data, self_patterns_config)
        ELSE << >>,
     trend_changes |->
        IF "trend_changes" \in called THEN _detect_trend_changes(in_data)
        ELSE << >>,
     volume_anomalies |->
        IF "volume_anomalies" \in called THEN _detect_volume_anomalies(in_data)
        ELSE << >>,
     technical_signals |->
        IF "technical_signals" \in called
        THEN _analyze_technical_signals(in_data, macd_cross)
        ELSE FreshPatterns(in_symbol).technical_signals]

\* C17: the result of analyze is the one every order of the six steps gives:
\* what each detector stores depends on the series and the configuration
\* alone, not on the steps that ran or failed before it.
C17_OrderInsensitive ==
    Done =>
        \A called \in {CalledIn(order) : order \in Orders} :
            \E slice_mode \in ReleaseModes(in_data),
               macd_cross \in MacdCrosses(in_data) :
                patterns = ResultOf(called, slice_mode, macd_cross)

\* analyze returned without trend changes for a series that has some, the
\* read of a None entry having ended the try block before that step.
C17_Witness ==
    /\ Done
    /\ self_patterns_config.support_resistance.none
    /\ patterns.trend_changes = << >>
    /\ _detect_trend_changes(in_data) # << >>

\* The five event sequences of a result.
Events(result) ==
    <<result.breakouts, result.divergences, result.support_resistance,
      result.trend_changes, result.volume_anomalies>>

\* C18: through any sequence of analyze calls on one analyzer no step changes
\* the pattern configuration, no step of a call changes the series the call
\* was given, a result that was returned stays as it was returned, and the
\* calls made on the same series returned the same events.
C18_CallsLeaveInputsAndResultsAlone ==
    [][/\ self_patterns_config' = self_patterns_config
       /\ pc \notin {"idle", "done"} => in_data' = in_data
       /\ \A k \in 1..Len(results) :
             /\ k <= Len(results')
             /\ results'[k] = results[k]
       /\ \A j, k \in 1..Len(results') :
             results'[j].data = results'[k].data
                 => Events(results'[j].patterns) = Events(results'[k].patterns)
      ]_vars

\* Two calls on the same series have returned, with events, for two symbols.
C18_Witness ==
    /\ Done
    /\ Len(results) = MaxCalls
    /\ results[1].data = results[2].data
    /\ results[1].symbol # results[2].symbol
    /\ results[1].patterns.breakouts # << >>
    /\ results[1].patterns.volume_anomalies # << >>

\* The mean of the 20 volumes ending at bar i.
WindowMean(volume, i) == Q(SeqSum(volume, i - 19, i), 20)

\* Their sample variance: (sum of squares - 20 mean^2) / 19.
WindowVariance(volume, i) ==
    Mul(Sub(Q(SeqSumSq(volume, i - 19, i), 1),
            Mul(Q(20, 1), Mul(WindowMean(volume, i), WindowMean(volume, i)))),
        Q(1, 19))

\* volume[i] > mean + 2 stddev, for a bar with 20 bars ending at it: the
\* excess over the mean is positive and its square exceeds 4 variances.
AboveTwoSigma(volume, i) ==
    LET excess == Sub(Q(volume[i], 1), WindowMean(volume, i))
    IN  /\ i >= 20
        /\ Gt(excess, Q(0, 1))
        /\ Gt(Mul(excess, excess), Mul(Q(4, 1), WindowVariance(volume, i)))

\* C19: _detect_volume_anomalies returns one event for each bar whose volume
\* exceeds the mean of the 20 volumes ending at it by more than twice their
\* standard deviation, and no other event; no event stands at a bar with
\* fewer than 20 bars up to it or with a standard deviation of zero, so the
\* deviation of every event divides by a positive number.
C19_VolumeAnomalyExactlyAboveTwoSigma ==
    Returned("_detect_volume_anomalies") =>
        LET data == fn_args.data
            n == Len(data.index)
            at == {i \in 1..n : \E k \in 1..Len(fn_ret) :
                                    fn_ret[k].timestamp = data.index[i]}
        IN  /\ at = {i \in 1..n : AboveTwoSigma(data.volume, i)}
            /\ Len(fn_ret) = Cardinality(at)
            /\ \A i \in at :
                  /\ i >= 20
                  /\ Gt(WindowVariance(data.volume, i), Q(0, 1))
            /\ \A k \in 1..Len(fn_ret) : ~fn_ret[k].deviation2.nan

\* The detector returned an event for a series that also has a bar with 20
\* equal volumes up to it.
C19_Witness ==
    /\ Returned("_detect_volume_anomalies")
    /\ Len(fn_ret) > 0
    /\ \E i \in 20..Len(fn_args.data.index) :
          WindowVariance(fn_args.data.volume, i) = Q(0, 1)

\* The number of positions at which the RSI the detector computes is defined.
DefinedRsiValues(data, patterns_config) ==
    LET rsi == _calculate_rsi(data.close, patterns_config.divergence.rsi_periods).values
    IN  Cardinality({i \in 1..Len(rsi) : ~rsi[i].nan})

\* C20: _detect_divergences returns the empty list whenever fewer than 20
\* values of the RSI series are defined.
C20_TooFewRsiValuesNoDivergence ==
    Returned("_detect_divergences") =>
        (DefinedRsiValues(fn_args.data, fn_args.config) < 20 => fn_ret = << >>)

\* A divergence has been returned for a series whose RSI has fewer than 20
\* defined values.
C20_Witness ==
    /\ Returned("_detect_divergences")
    /\ DefinedRsiValues(fn_args.data, fn_args.config) < 20
    /\ fn_ret # << >>

\* The condition of a divergence at position i, for sign 1 (bullish, over
\* troughs) or -1 (bearish, over peaks): i is a price extremum with a price
\* extremum before it, at least two RSI extrema lie between the two, ends
\* included, the price slope between the two price extrema and the RSI slope
\* between the first and the last of those RSI extrema have the signs of the
\* direction, and the absolute value of their product exceeds the minimum.
DivergenceCondition(data, patterns_config, sign, i) ==
    LET rsi == _calculate_rsi(data.close, patterns_config.divergence.rsi_periods).values
        price == AsValues(data.close)
        price_extrema == IF sign = 1 THEN FindPeaks(Negated(price))
                         ELSE FindPeaks(price)
        rsi_extrema == IF sign = 1 THEN FindPeaks(Negated(rsi)) ELSE FindPeaks(rsi)
        minimum == Q(patterns_config.divergence.min_divergence_strength, 10)
    IN  \E k \in 2..Len(price_extrema) :
            LET before == price_extrema[k - 1]
                between == {rsi_extrema[j] : j \in 1..Len(rsi_extrema)}
                               \cap (before..i)
                first == SetMin(between)
                last == SetMax(between)
                price_slope == Mul(Sub(price[i], price[before]), Q(1, i - before))
                rsi_slope == Mul(Sub(rsi[last], rsi[first]), Q(1, last - first))
                product == Mul(price_slope, rsi_slope)
            IN  /\ price_extrema[k] = i
                /\ Cardinality(between) >= 2
                /\ IF sign = 1
                   THEN Lt(price_slope, Q(0, 1)) /\ Gt(rsi_slope, Q(0, 1))
                   ELSE Gt(price_slope, Q(0, 1)) /\ Lt(rsi_slope, Q(0, 1))
                /\ \/ Gt(product, minimum)
                   \/ Gt(Neg(product), minimum)

\* The events of the type stand at exactly the bars of the condition, one
\* event a bar.
DivergencesMatchCondition(events, data, patterns_config) ==
    \A sign \in {1, -1} :
        LET type == IF sign = 1 THEN "bullish_divergence" ELSE "bearish_divergence"
            of_type == {k \in 1..Len(events) : events[k].type = type}
            at == {i \in 1..Len(data.index) :
                      DivergenceCondition(data, patterns_config, sign, i)}
        IN  /\ {events[k].timestamp : k \in of_type} = {data.index[i] : i \in at}
            /\ Cardinality(of_type) = Cardinality(at)

\* The statement without a word on the length of the series.
C21_DivergenceExactlyOnCondition ==
    Returned("_detect_divergences") =>
        DivergencesMatchCondition(fn_ret, fn_args.data, fn_args.config)

\* C21: on a series of at least 20 bars _detect_divergences returns a
\* bullish_divergence at the bar of a price trough exactly when the condition
\* holds for it and the trough before it, and a bearish_divergence at the bar
\* of a price peak exactly when the mirrored condition holds.
C21_DivergenceExactlyOnConditionFrom20Bars ==
    Returned("_detect_divergences") =>
        IF Len(fn_args.data.index) >= 20
        THEN DivergencesMatchCondition(fn_ret, fn_args.data, fn_args.config)
        ELSE fn_ret = << >>

\* A divergence was returned for a series of at least 20 bars.
C21_Witness ==
    /\ Returned("_detect_divergences")
    /\ Len(fn_args.data.index) >= MinRsiLen
    /\ fn_ret # << >>

\* First fit, stated place by place on the values in ascending order: the
\* value at place k seeds a cluster when it is further than the tolerance
\* from every seed at a place before k.
RECURSIVE IsSeed(_, _, _)
IsSeed(sorted, k, tolerance) ==
    \A j \in 1..(k - 1) :
        IsSeed(sorted, j, tolerance)
            => Abs(sorted[k] - sorted[j]) * 100 > tolerance * sorted[j]

\* The place of the seed the value at place k goes to: k itself for a seed,
\* else the earliest seed within the tolerance.
SeedOf(sorted, k, tolerance) ==
    IF IsSeed(sorted, k, tolerance) THEN k
    ELSE SetMin({j \in 1..(k - 1) :
                    /\ IsSeed(sorted, j, tolerance)
                    /\ Abs(sorted[k] - sorted[j]) * 100 <= tolerance * sorted[j]})

\* The clusters of the reference, in the order of their seeds, each with its
\* members in the order of the visit.
FirstFit(levels, tolerance) ==
    LET sorted == SortValues(levels)
        Seeds(k) == IsSeed(sorted, k, tolerance)
        seeds == SelectSeq(Positions(Len(sorted)), Seeds)
    IN  [c \in 1..Len(seeds) |->
            LET Mine(k) == SeedOf(sorted, k, tolerance) = seeds[c]
                members == SelectSeq(Positions(Len(sorted)), Mine)
            IN  [level |-> sorted[seeds[c]],
                 touches |-> [m \in 1..Len(members) |-> sorted[members[m]]]]]

\* C22: _cluster_levels returns the clusters of the first-fit reference, and
\* none of them is empty.
C22_ClusterLevelsIsFirstFit ==
    fn_pc = "done" =>
        /\ fn_ret = FirstFit(fn_args.levels, fn_args.tolerance)
        /\ \A c \in 1..Len(fn_ret) : Len(fn_ret[c].touches) > 0

\* A value was kept out of a cluster whose latest member is within the
\* tolerance of it, its seed being too far: 10 and 11 share a cluster at
\* tolerance 0.10 and 12 starts its own.
C22_Witness ==
    /\ fn_pc = "done"
    /\ ~fn_args.again
    /\ fn_args.tolerance = 10
    /\ Len(fn_ret) = 2
    /\ fn_ret[1].touches = <<10, 11>>
    /\ fn_ret[2].level = 12

---------------------------------------------------------------------------
(* The levels _detect_support_resistance returns against the clusters of  *)
(* its candidates.                                                         *)

\* The events of the given type are one per cluster of the candidates with at
\* least min_touches members, and carry its key, its member count and the
\* share of the bars that count makes, in percent.
LevelsMatchClusters(events, type, clustered, min_touches, total) ==
    LET ofType == {k \in 1..Len(events) : events[k].type = type}
        large == {c \in 1..Len(clustered) :
                     Len(clustered[c].touches) >= min_touches}
    IN  /\ Cardinality(ofType) = Cardinality(large)
        /\ \A c \in large :
              \E k \in ofType :
                  /\ events[k].level = clustered[c].level
                  /\ events[k].touches = Len(clustered[c].touches)
                  /\ events[k].strength.den * events[k].touches * 100
                         = events[k].strength.num * total

\* C23: _detect_support_resistance returns exactly one level event for each
\* resistance cluster and each support cluster with at least min_touches
\* members and none for a smaller cluster; touches is the member count and
\* strength is touches / (number of bars) * 100.
C23_OneLevelPerLargeCluster ==
    Returned("_detect_support_resistance") =>
        LET data == fn_args.data
            entry == fn_args.config.support_resistance
        IN  /\ \A k \in 1..Len(fn_ret) : fn_ret[k].type \in {"resistance", "support"}
            /\ LevelsMatchClusters(fn_ret, "resistance",
                    _cluster_levels(ResistanceCandidates(data), entry.tolerance),
                    entry.min_touches, Len(data.index))
            /\ LevelsMatchClusters(fn_ret, "support",
                    _cluster_levels(SupportCandidates(data), entry.tolerance),
                    entry.min_touches, Len(data.index))

\* Under min_touches 3 the resistance candidates form a cluster of three or
\* more, which gets a level, and a smaller one, which gets none.
C23_Witness ==
    /\ Returned("_detect_support_resistance")
    /\ fn_args.config.support_resistance.min_touches = 3
    /\ \E k \in 1..Len(fn_ret) :
          fn_ret[k].type = "resistance" /\ fn_ret[k].touches >= 3
    /\ \E c \in DOMAIN _cluster_levels(ResistanceCandidates(fn_args.data),
                                       fn_args.config.support_resistance.tolerance) :
          Len(_cluster_levels(ResistanceCandidates(fn_args.data),
                  fn_args.config.support_resistance.tolerance)[c].touches) < 3

---------------------------------------------------------------------------
(* The crossovers _detect_trend_changes returns against the two averages.  *)

\* Both averages are defined at bar i and at the bar before it.
BothDefinedTwice(i) == i - 1 >= SmaSlow

\* w times the w-bar average of the closes at bar i, i >= w.
CloseSum(data, w, i) == SeqSum(data.close, i - w + 1, i)

\* SMA20 against SMA50 at bar i: 1 above, 0 equal, -1 below.
SmaSide(data, i) ==
    LET fast == CloseSum(data, SmaFast, i) * SmaSlow
        slow == CloseSum(data, SmaSlow, i) * SmaFast
    IN  IF fast > slow THEN 1 ELSE IF fast < slow THEN -1 ELSE 0

BullishAt(data, i) ==
    BothDefinedTwice(i) /\ SmaSide(data, i) = 1 /\ SmaSide(data, i - 1) <= 0

BearishAt(data, i) ==
    BothDefinedTwice(i) /\ SmaSide(data, i) = -1 /\ SmaSide(data, i - 1) >= 0

\* The timestamps of the events of one type, in the order returned.
StampsOf(events, type) ==
    LET OfType(k) == events[k].type = type
        at == SelectSeq(Positions(Len(events)), OfType)
    IN  [k \in 1..Len(at) |-> events[at[k]].timestamp]

\* C24: _detect_trend_changes returns a bullish_crossover for bar i exactly
\* when SMA20 and SMA50 are both defined at bars i and i-1, SMA20[i] > SMA50[i]
\* and SMA20[i-1] <= SMA50[i-1], and a bearish_crossover exactly when both are
\* defined at i and i-1, SMA20[i] < SMA50[i] and SMA20[i-1] >= SMA50[i-1]: the
\* events of each type are one per such bar, with its timestamp, and there is
\* no other event, so none for the first 50 bars.
C24_CrossoverExactlyOnCondition ==
    Returned("_detect_trend_changes") =>
        LET data == fn_args.data
            n == Len(data.index)
            Up(i) == BullishAt(data, i)
            Down(i) == BearishAt(data, i)
            ups == SelectSeq(Positions(n), Up)
            downs == SelectSeq(Positions(n), Down)
        IN  /\ \A k \in 1..Len(fn_ret) :
                  fn_ret[k].type \in {"bullish_crossover", "bearish_crossover"}
            /\ StampsOf(fn_ret, "bullish_crossover")
                   = [k \in 1..Len(ups) |-> data.index[ups[k]]]
            /\ StampsOf(fn_ret, "bearish_crossover")
                   = [k \in 1..Len(downs) |-> data.index[downs[k]]]

\* A series with distinct timestamps whose last bar is a bullish crossover,
\* returned as the only event, after the first bar at which both averages are
\* defined twice passed without one.
C24_Witness ==
    /\ Returned("_detect_trend_changes")
    /\ UniqueTimestamps(fn_args.data)
    /\ Len(fn_args.data.index) = SmaSlow + 2
    /\ BullishAt(fn_args.data, SmaSlow + 2)
    /\ ~BullishAt(fn_args.data, SmaSlow + 1)
    /\ ~BearishAt(fn_args.data, SmaSlow + 1)
    /\ Len(fn_ret) = 1
    /\ fn_ret[1].type = "bullish_crossover"
    /\ fn_ret[1].timestamp = fn_args.data.index[SmaSlow + 2]

---------------------------------------------------------------------------
(* The snapshot _analyze_technical_signals returns against the last bar.   *)

\* The RSI of period 14 at the last bar of the series.
LastRsi(data) ==
    _calculate_rsi(data.close, RsiSignalPeriod).values[Len(data.index)]

\* C25: on a non-empty series _analyze_technical_signals runs to its end, so
\* the snapshot holds its three entries.  Where the RSI, SMA20 or SMA50 of the
\* last bar is undefined the value stored is None and no flag that depends on
\* it (overbought, oversold, trend bullish) is true; where the RSI of the last
\* bar is defined, overbought is set exactly when it is above 70 and oversold
\* exactly when it is below 30.
C25_SnapshotOfUndefinedIsNullAndFalse ==
    (Returned("_analyze_technical_signals") /\ Len(fn_args.data.index) > 0) =>
        LET n == Len(fn_args.data.index)
            rsi == LastRsi(fn_args.data)
        IN  /\ fn_ret.rsi.present /\ fn_ret.macd.present /\ fn_ret.trend.present
            /\ rsi.nan =>
                  /\ fn_ret.rsi.current = None
                  /\ ~fn_ret.rsi.overbought
                  /\ ~fn_ret.rsi.oversold
            /\ ~rsi.nan =>
                  /\ fn_ret.rsi.current = rsi
                  /\ fn_ret.rsi.overbought <=> rsi.num > RsiOverbought * rsi.den
                  /\ fn_ret.rsi.oversold <=> rsi.num < RsiOversold * rsi.den
            /\ n < SmaFast =>
                  fn_ret.trend.sma_20 = None /\ fn_ret.trend.bullish # "True"
            /\ n < SmaSlow =>
                  fn_ret.trend.sma_50 = None /\ fn_ret.trend.bullish # "True"

\* A series of 20 to 49 bars: the RSI and SMA20 of the last bar are defined,
\* the RSI is above 70 and flagged overbought, SMA50 is undefined and stored
\* as None.
C25_Witness ==
    /\ Returned("_analyze_technical_signals")
    /\ Len(fn_args.data.index) >= SmaFast
    /\ Len(fn_args.data.index) < SmaSlow
    /\ fn_ret.rsi.overbought
    /\ fn_ret.trend.sma_20 # None
    /\ fn_ret.trend.sma_50 = None

---------------------------------------------------------------------------
(* The strength of a breakout against the window of lookback_periods bars. *)

\* The lookback bars that end with bar i, by position.
LookbackBars(i, lookback) == {j \in 1..i : j > i - lookback}

\* max(0, (close[i] - M) / M), M the highest high of the bars.
ResistanceStrengthOver(data, i, bars) ==
    LET M == SetMax({data.high[j] : j \in bars})
    IN  IF data.close[i] > M THEN Q(data.close[i] - M, M) ELSE Q(0, 1)

\* max(0, (m - close[i]) / m), m the lowest low of the bars.
SupportStrengthOver(data, i, bars) ==
    LET m == SetMin({data.low[j] : j \in bars})
    IN  IF m > data.close[i] THEN Q(m - data.close[i], m) ELSE Q(0, 1)

\* C26: the strength of a resistance breakout at bar i is
\* max(0, (close[i] - M) / M), M the highest high of the lookback_periods bars
\* that end with bar i, counted by position; that of a support breakout is
\* max(0, (m - close[i]) / m), m the lowest low of the same bars.
C26_StrengthOverLookbackBars ==
    (Returned("_detect_breakouts") /\ UniqueTimestamps(fn_args.data)) =>
        \A k \in 1..Len(fn_ret) :
            LET data == fn_args.data
                i == Loc(data.index, fn_ret[k].timestamp)
                bars == LookbackBars(i, fn_args.config.breakout.lookback_periods)
            IN  IF fn_ret[k].type = "resistance_breakout"
                THEN Eq(fn_ret[k].strength, ResistanceStrengthOver(data, i, bars))
                ELSE Eq(fn_ret[k].strength, SupportStrengthOver(data, i, bars))

\* A resistance breakout is returned under lookback_periods 2 for a bar that
\* closes above the highs of the two bars ending with it while a higher high
\* lies three bars back.
C26_Witness ==
    /\ Returned("_detect_breakouts")
    /\ UniqueTimestamps(fn_args.data)
    /\ fn_args.config.breakout.lookback_periods = 2
    /\ \E k \in 1..Len(fn_ret) :
          LET data == fn_args.data
              i == Loc(data.index, fn_ret[k].timestamp)
          IN  /\ fn_ret[k].type = "resistance_breakout"
              /\ i >= 4
              /\ data.close[i] > data.high[i]
              /\ data.close[i] > data.high[i - 1]
              /\ data.close[i] <= data.high[i - 3]

---------------------------------------------------------------------------
(* _detect_breakouts under a window of three bars or more.                 *)

\* Every bar has its high at or above its open and close, and its low at or
\* below them.
OrderedBars(data) ==
    \A i \in 1..Len(data.index) :
        /\ data.high[i] >= data.open[i] /\ data.high[i] >= data.close[i]
        /\ data.low[i] <= data.open[i] /\ data.low[i] <= data.close[i]

\* The bars that cannot trigger for want of a complete window: the last
\* (lookback - 1) // 2 - 1 of the series.
TooLate(n, lookback) == {i \in 1..n : i > n - (((lookback - 1) \div 2) - 1)}

\* C29: under lookback_periods of 3 or more, _detect_breakouts returns the
\* empty list for every series whose bars have high >= max(open, close) and
\* low <= min(open, close), the window a bar is compared with containing the
\* bar itself; and on any series none of the last (lookback - 1) // 2 - 1 bars
\* is returned as a breakout.
C29_NoBreakoutUnderCenteredWindow ==
    (/\ Returned("_detect_breakouts")
     /\ Has(fn_args.data, Columns)
     /\ fn_args.config.breakout.lookback_periods >= 3) =>
        LET data == fn_args.data
            lookback == fn_args.config.breakout.lookback_periods
        IN  /\ OrderedBars(data) => fn_ret = << >>
            /\ \A k \in 1..Len(fn_ret) :
                  \A i \in TooLate(Len(data.index), lookback) :
                      fn_ret[k].timestamp # data.index[i]

\* Under lookback_periods 3 a bar of a series of ordered bars closes above
\* its open and above the highs of the three bars before it, on a volume
\* above the threshold, and nothing is returned.
C29_Witness ==
    /\ Returned("_detect_breakouts")
    /\ fn_args.config.breakout.lookback_periods = 3
    /\ OrderedBars(fn_args.data)
    /\ \E i \in 4..Len(fn_args.data.index) :
          /\ fn_args.data.close[i] > fn_args.data.open[i]
          /\ \A j \in (i - 3)..(i - 1) : fn_args.data.close[i] > fn_args.data.high[j]
          /\ HighVolume(fn_args.data, 3, fn_args.config.breakout.volume_threshold, i)
    /\ fn_ret = << >>

---------------------------------------------------------------------------
(* The dict of _cluster_levels as a partition of the candidates.           *)

\* How many times the value occurs in the sequence.
Occurrences(seq, v) == Cardinality({j \in 1..Len(seq) : seq[j] = v})

\* How many times the value occurs among the members of the clusters
\* 1..k of the dict.
RECURSIVE MemberOccurrences(_, _, _)
MemberOccurrences(clustered, k, v) ==
    IF k = 0 THEN 0
    ELSE Occurrences(clustered[k].touches, v) + MemberOccurrences(clustered, k - 1, v)

\* C30: on positive candidates the dict _cluster_levels returns is a
\* partition of them: every candidate, counted as often as it occurs, is a
\* member of exactly one cluster, so the sizes of the clusters add up to the
\* number of candidates; the key of a cluster is the least of its members,
\* and every member m of a cluster of key s has s <= m <= s * (1 + tolerance).
C30_ClustersPartitionCandidates ==
    fn_pc = "done" =>
        /\ \A v \in ClusterValues :
              MemberOccurrences(fn_ret, Len(fn_ret), v) = Occurrences(fn_args.levels, v)
        /\ \A k \in 1..Len(fn_ret) :
              LET s == fn_ret[k].level
                  members == {fn_ret[k].touches[j] : j \in 1..Len(fn_ret[k].touches)}
              IN  /\ s \in members
                  /\ \A m \in members :
                        /\ s <= m
                        /\ m * 100 <= s * (100 + fn_args.tolerance)

\* Candidates given in descending order, one of them twice, end up in one
\* cluster of three under the key 10.
C30_Witness ==
    /\ fn_pc = "done"
    /\ ~fn_args.again
    /\ fn_args.levels = <<11, 10, 11>>
    /\ Len(fn_ret) = 1
    /\ fn_ret[1].level = 10
    /\ Len(fn_ret[1].touches) = 3

---------------------------------------------------------------------------
(* Where the series of _calculate_rsi starts to be defined.                *)

\* C28 as stated: the RSI of period p is undefined at each of the first p
\* positions of the input.
C28_RsiUndefinedAtFirstPeriodPositions ==
    RsiDone =>
        \A i \in 1..Len(ret_rsi.values) :
            i <= arg_period => ret_rsi.values[i].nan

\* C28: the RSI of period p is undefined at each of the first p - 1 positions
\* of the input, the rolling window of p values not being full there; the
\* change of the first bar, which does not exist, counts as a zero gain and a
\* zero loss, so that the value at the first position is undefined under
\* period 1 as well, and position p is the first that can hold a value for
\* p >= 2.
C28_RsiUndefinedBeforeWindowIsFull ==
    RsiDone =>
        /\ \A i \in 1..Len(ret_rsi.values) :
              i < arg_period => ret_rsi.values[i].nan
        /\ Len(ret_rsi.values) >= 1 => ret_rsi.values[1].nan

\* Under period 3 the third value of the series is defined: its window holds
\* the zero of the first bar and two changes.
C28_Witness ==
    /\ RsiDone
    /\ arg_period = 3
    /\ Len(ret_rsi.values) >= 3
    /\ ~ret_rsi.values[3].nan
    /\ ret_rsi.values[1].nan
    /\ ret_rsi.values[2].nan

---------------------------------------------------------------------------
(* The averages of _calculate_macd against the recursive average.          *)

\* The two series are defined and equal at every position.
SameSeries(a, b) ==
    /\ Len(a) = Len(b)
    /\ \A i \in 1..Len(a) : Eq(a[i], b[i])

\* C27: the averages of _calculate_macd are the recursive ones with
\* alpha = 2 / (span + 1), seeded by the first value: ema[0] = x[0] and
\* ema[t] = alpha x[t] + (1 - alpha) ema[t-1]; macd is ema(12) - ema(26),
\* signal is the ema(9) of macd, histogram is macd - signal, and all three
\* are defined from the first bar on.
C27_MacdOfRecursiveEma ==
    Returned("_calculate_macd") =>
        LET x == [i \in 1..Len(fn_args.data) |-> Q(fn_args.data[i], 1)]
            fast == EwmMean_recursive(x, MacdFast)
            slow == EwmMean_recursive(x, MacdSlow)
            macd == [i \in 1..Len(x) |-> Sub(fast[i], slow[i])]
            signal == EwmMean_recursive(macd, MacdSignalSpan)
        IN  /\ SameSeries(fn_ret.macd, macd)
            /\ SameSeries(fn_ret.signal, signal)
            /\ SameSeries(fn_ret.histogram,
                          [i \in 1..Len(x) |-> Sub(macd[i], signal[i])])

\* The three series are returned for closes that change from the first bar
\* to the second, all values defined.
C27_Witness ==
    /\ Returned("_calculate_macd")
    /\ Len(fn_args.data) >= 2
    /\ fn_args.data[1] # fn_args.data[2]
    /\ \A i \in 1..Len(fn_args.data) :
          ~fn_ret.macd[i].nan /\ ~fn_ret.signal[i].nan /\ ~fn_ret.histogram[i].nan

============================================================================
